---- MODULE Spec2Model ----
(***************************************************************************)
(* Bank-advice OCR extraction engine (ocr_process.py): segmentation of the *)
(* page-tagged OCR text into chunks, per-dialect field extraction, header  *)
(* carry-forward, promotion of chunks to records, and the master-account   *)
(* enrichment pass of process_single_pdf; and the date normalisation of    *)
(* the storage layer (db_manager.normalize_date).                          *)
(*                                                                         *)
(* Text is modelled as TLA+ strings; TLC evaluates Len, \o and SubSeq on   *)
(* strings, so offsets are character offsets as in the Python code.        *)
(* Python's None is the value None below; a Python index i (0-based) is    *)
(* the model position i+1 (1-based).                                       *)
(***************************************************************************)
EXTENDS Integers, Sequences, FiniteSets, TLC

\* Python None; no text of the model's inputs equals it.
None == "None"

\* Python truthiness of a field: neither None nor the empty string
Truthy(v) == v # None /\ v # ""

\* ------------------------------------------------------------------------
\* Characters and strings
\* ------------------------------------------------------------------------

Digits == {"0", "1", "2", "3", "4", "5", "6", "7", "8", "9"}

UpperSeq == <<"A", "B", "C", "D", "E", "F", "G", "H", "I", "J", "K", "L", "M",
              "N", "O", "P", "Q", "R", "S", "T", "U", "V", "W", "X", "Y", "Z">>

LowerSeq == <<"a", "b", "c", "d", "e", "f", "g", "h", "i", "j", "k", "l", "m",
              "n", "o", "p", "q", "r", "s", "t", "u", "v", "w", "x", "y", "z">>

Upper == {UpperSeq[i] : i \in DOMAIN UpperSeq}

Lower == {LowerSeq[i] : i \in DOMAIN LowerSeq}

\* \s of Python's re, restricted to the whitespace the inputs contain
Space == {" ", "\n", "\t"}

\* \w of Python's re (ASCII part)
WordCh == Upper \cup Lower \cup Digits \cup {"_"}

\* s[i-1] of Python: the one-character string at position i
At(s, i) == SubSeq(s, i, i)

\* The element of a one-element set. A value that is used more than once is
\* bound as x \in {value} below, so that it is computed once.
Only(S) == CHOOSE x \in S : TRUE

\* str.upper() on one character
UpCh == [c \in Lower |-> UpperSeq[CHOOSE i \in DOMAIN LowerSeq : LowerSeq[i] = c]]

RECURSIVE MapChars(_, _, _, _)
\* the characters lo..hi of s, each replaced by f[c] when c is in the domain
\* of f (the range is halved to keep the evaluation shallow)
MapChars(s, f, lo, hi) ==
    IF lo > hi THEN ""
    ELSE IF lo = hi THEN (IF At(s, lo) \in DOMAIN f THEN f[At(s, lo)] ELSE At(s, lo))
    ELSE LET mid == (lo + hi) \div 2
         IN  MapChars(s, f, lo, mid) \o MapChars(s, f, mid + 1, hi)

\* str.upper(): what re.IGNORECASE and text.upper() compare on
ToUpper(s) == MapChars(s, UpCh, 1, Len(s))

\* Python's `sub in s`
In(sub, s) == \E p \in 1..(Len(s) - Len(sub) + 1) : SubSeq(s, p, p + Len(sub) - 1) = sub

\* re.sub / str.replace of every character of cs by the empty string
RemoveChars(s, cs) == MapChars(s, [c \in cs |-> ""], 1, Len(s))

RECURSIVE LStrip(_)
LStrip(s) == IF s # "" /\ At(s, 1) \in Space THEN LStrip(Tail(s)) ELSE s

RECURSIVE RStrip(_)
RStrip(s) ==
    IF s # "" /\ At(s, Len(s)) \in Space THEN RStrip(SubSeq(s, 1, Len(s) - 1)) ELSE s

\* str.strip()
Strip(s) == RStrip(LStrip(s))

\* ------------------------------------------------------------------------
\* Regular expressions of Python's re module, as data.
\* A pattern is a sequence of items; an item is a character class with a
\* repetition range (greedy, or lazy for `*?`), a literal string, a negative
\* lookahead (?!c) or a word boundary \b. An alternation (?:A|B)R is the ordered list of
\* patterns <<A R, B R>>, and an optional group (?:A)?R is <<A R, R>>: the
\* backtracking matcher tries them in that order at each start position.
\* ------------------------------------------------------------------------

\* [cs]{lo,hi}
Cls(cs, lo, hi) == [k |-> "c", cs |-> cs, neg |-> FALSE, lo |-> lo, hi |-> hi,
                    unb |-> FALSE, lazy |-> FALSE]

\* [cs]{lo,}  ([cs]* for lo = 0, [cs]+ for lo = 1)
ClsFrom(cs, lo) == [k |-> "c", cs |-> cs, neg |-> FALSE, lo |-> lo, hi |-> lo,
                    unb |-> TRUE, lazy |-> FALSE]

\* .*?  (any character but a newline, as few as possible)
LazyDot == [k |-> "c", cs |-> {"\n"}, neg |-> TRUE, lo |-> 0, hi |-> 0,
            unb |-> TRUE, lazy |-> TRUE]

\* (?![cs])
Nla(cs) == [k |-> "nla", cs |-> cs, neg |-> FALSE, lo |-> 0, hi |-> 0,
            unb |-> FALSE, lazy |-> FALSE]

\* \b
Wb == [k |-> "wb", cs |-> WordCh, neg |-> FALSE, lo |-> 0, hi |-> 0,
       unb |-> FALSE, lazy |-> FALSE]

\* a literal string, as a pattern of one item. A literal that is matched
\* case-insensitively is written in upper case and matched against the
\* upper-cased text.
Lit(str) == <<[k |-> "lit", str |-> str, cs |-> {}, neg |-> FALSE, lo |-> Len(str),
               hi |-> Len(str), unb |-> FALSE, lazy |-> FALSE]>>

\* character c is one that item `it` consumes
InCls(it, c) == (c \in it.cs) # it.neg

RECURSIVE RunLen(_, _, _, _)
\* how many characters from position p on item `it` can consume at most
RunLen(s, p, it, n) ==
    IF (~it.unb /\ n >= it.hi) \/ p + n > Len(s) \/ ~InCls(it, At(s, p + n))
    THEN n
    ELSE RunLen(s, p, it, n + 1)

IsWordAt(s, p) == p >= 1 /\ p <= Len(s) /\ At(s, p) \in WordCh

\* the count a quantified item settles on, among the counts ks with which
\* the rest of the pattern matches: the smallest when lazy, else the largest
PreferredCount(it, ks) ==
    IF it.lazy THEN CHOOSE k \in ks : \A j \in ks : k <= j
    ELSE CHOOSE k \in ks : \A j \in ks : k >= j

RECURSIVE MatchFrom(_, _, _, _)
\* Match items i.. of pat at position p of s, with the backtracking of the re
\* module. The result is {} when there is no match, and else the set of the
\* one match: the sequence of positions at which each of the items i..
\* starts, followed by the position after the match.
MatchFrom(pat, s, i, p) ==
    IF i > Len(pat) THEN {<<p>>}
    ELSE CASE pat[i].k = "lit" ->
                IF p + pat[i].lo - 1 <= Len(s) /\ SubSeq(s, p, p + pat[i].lo - 1) = pat[i].str
                THEN {<<p>> \o r : r \in MatchFrom(pat, s, i + 1, p + pat[i].lo)}
                ELSE {}
           [] pat[i].k = "nla" ->
                IF p <= Len(s) /\ At(s, p) \in pat[i].cs THEN {}
                ELSE {<<p>> \o r : r \in MatchFrom(pat, s, i + 1, p)}
           [] pat[i].k = "wb" ->
                IF IsWordAt(s, p - 1) = IsWordAt(s, p) THEN {}
                ELSE {<<p>> \o r : r \in MatchFrom(pat, s, i + 1, p)}
           [] OTHER ->
                UNION {IF ks = {} THEN {}
                       ELSE {<<p>> \o r :
                             r \in MatchFrom(pat, s, i + 1, p + PreferredCount(pat[i], ks))} :
                       ks \in {{k \in pat[i].lo..RunLen(s, p, pat[i], 0) :
                                  MatchFrom(pat, s, i + 1, p + k) # {}}}}

NoMatch == [found |-> FALSE, alt |-> 0, b |-> <<>>]

RECURSIVE MatchAlts(_, _, _, _)
\* the match at position p of the first alternative (in order, from the
\* j-th) that matches there, as a set of at most one element
MatchAlts(alts, s, p, j) ==
    IF j > Len(alts) THEN {}
    ELSE UNION {IF bs # {} THEN {[found |-> TRUE, alt |-> j, b |-> b] : b \in bs}
                ELSE MatchAlts(alts, s, p, j + 1) :
                bs \in {MatchFrom(alts[j], s, 1, p)}}

\* re.search from position p: the leftmost match
Search(alts, s, p) ==
    Only({IF starts = {} THEN NoMatch
          ELSE Only(MatchAlts(alts, s, CHOOSE q \in starts : \A r \in starts : q <= r, 1)) :
          starts \in {{q \in p..(Len(s) + 1) : MatchAlts(alts, s, q, 1) # {}}}})

\* m.start() and m.end() as model positions: first character, and the
\* position after the last one
MStart(m) == m.b[1]

MEnd(m) == m.b[Len(m.b)]

\* the text matched by items from..to of the matched alternative
Group(s, m, from, to) == SubSeq(s, m.b[from], m.b[to + 1] - 1)

RECURSIVE FindIter(_, _, _)
\* re.finditer: the successive non-overlapping matches, left to right
\* (no pattern of the program matches the empty string)
FindIter(alts, s, p) ==
    Only({IF ~m.found THEN <<>> ELSE <<m>> \o FindIter(alts, s, MEnd(m)) :
          m \in {Search(alts, s, p)}})

DigitSeq == <<"0", "1", "2", "3", "4", "5", "6", "7", "8", "9">>

DigitVal(c) == (CHOOSE i \in DOMAIN DigitSeq : DigitSeq[i] = c) - 1

RECURSIVE ParseInt(_)
\* int() of a string of decimal digits
ParseInt(str) ==
    IF str = "" THEN 0
    ELSE 10 * ParseInt(SubSeq(str, 1, Len(str) - 1)) + DigitVal(At(str, Len(str)))

\* ------------------------------------------------------------------------
\* Segmentation and page index (extract_all_entries, first half)
\* ------------------------------------------------------------------------

\* r"--- Page (\d+) ---" (case-sensitive); the group is item 2
PageMarkerPat == <<Lit("--- Page ") \o <<ClsFrom(Digits, 1)>> \o Lit(" ---")>>

\* page_map: (m.start(), int(m.group(1))) per page marker, in text order,
\* or [(0, 1)] when the text has no page marker
BuildPageMap(text) ==
    Only({IF ms = <<>> THEN << <<0, 1>> >>
          ELSE [i \in DOMAIN ms |->
                   <<MStart(ms[i]) - 1, ParseInt(Group(text, ms[i], 2, 2))>>] :
          ms \in {FindIter(PageMarkerPat, text, 1)}})

\* the lookahead of the split pattern, re.IGNORECASE: matched on the
\* upper-cased text
SplitMarkers == <<Lit("DEBIT ADVICE"), Lit("CREDIT ADVICE"), Lit("RECEIPT NO."),
                  Lit("SHIPMENT RECEIPT"),
                  Lit("--- PAGE ") \o <<ClsFrom(Digits, 1)>> \o Lit(" ---")>>

RECURSIVE CutAt(_, _, _)
\* the pieces of s from position `from` on, cut before each position of the
\* ascending sequence cuts
CutAt(s, cuts, from) ==
    IF cuts = <<>> THEN <<SubSeq(s, from, Len(s))>>
    ELSE <<SubSeq(s, from, Head(cuts) - 1)>> \o CutAt(s, Tail(cuts), Head(cuts))

RECURSIVE Ascending(_)
\* the elements of a finite set of numbers in ascending order
Ascending(S) ==
    IF S = {} THEN <<>>
    ELSE LET m == CHOOSE x \in S : \A y \in S : x <= y
         IN  <<m>> \o Ascending(S \ {m})

\* cuts placed one character after the start of each marker
SplitPositions_shifted(markers, U) ==
    Ascending({p + 1 : p \in {q \in 1..Len(U) : MatchAlts(markers, U, q, 1) # {}}})

\* the positions at which a marker of the split pattern starts, ascending
SplitPositions(markers, U) ==
    Ascending({p \in 1..Len(U) : MatchAlts(markers, U, p, 1) # {}})

\* a split on the bare words DEBIT, CREDIT and RECEIPT and on page markers
SplitChunks_words(text) ==
    CutAt(text, SplitPositions(<<Lit("DEBIT"), Lit("CREDIT"), Lit("RECEIPT"),
                                 Lit("--- PAGE ") \o <<ClsFrom(Digits, 1)>> \o Lit(" ---")>>,
                               ToUpper(text)), 1)

\* re.split on a zero-width lookahead: the text is cut before every position
\* at which a marker starts; nothing is removed
SplitChunks(text) == CutAt(text, SplitPositions(SplitMarkers, ToUpper(text)), 1)

\* get_bank_parser
get_bank_parser(text) ==
    IF In("KRUNGTHAI", ToUpper(text)) THEN "KrungthaiParser"
    ELSE IF In("CIMB", ToUpper(text)) THEN "CIMBParser"
    ELSE "GenericParser"

RECURSIVE PageLoop_ge(_, _, _, _)
\* the page-number loop with its comparison turned round (p_start >= current_pos)
PageLoop_ge(page_map, current_pos, i, page) ==
    IF i > Len(page_map) THEN page
    ELSE IF page_map[i][1] >= current_pos
         THEN PageLoop_ge(page_map, current_pos, i + 1, page_map[i][2])
         ELSE page

\* the page-number loop of extract_all_entries: the page of the last entry
\* of page_map whose offset is <= current_pos, 1 before the first entry
RECURSIVE PageLoop(_, _, _, _)
PageLoop(page_map, current_pos, i, page) ==
    IF i > Len(page_map) THEN page
    ELSE IF page_map[i][1] <= current_pos
         THEN PageLoop(page_map, current_pos, i + 1, page_map[i][2])
         ELSE page

DeterminePage(page_map, current_pos) == PageLoop(page_map, current_pos, 1, 1)

\* ------------------------------------------------------------------------
\* Field extractors (BankParser.extract_chunk)
\* In every operator below, text is the chunk and U is the chunk in upper
\* case: a pattern compiled with re.IGNORECASE is written in upper case and
\* searched in U; its groups are read from text at the same positions.
\* ------------------------------------------------------------------------

\* str.replace of one character by another
ReplaceCh(s, a, b) == MapChars(s, [c \in {a} |-> b], 1, Len(s))

\* s.split('\n')[0]
FirstLine(s) ==
    IF In("\n", s)
    THEN SubSeq(s, 1, (CHOOSE p \in 1..Len(s) :
                         At(s, p) = "\n" /\ \A q \in 1..(p - 1) : At(s, q) # "\n") - 1)
    ELSE s

\* the capture group of a match whose pattern ends with the group
LastGroup(s, alts, m) == Group(s, m, Len(alts[m.alt]), Len(alts[m.alt]))

\* (?:A[/|I]?C['\s]*NO|Account\s*No|AVCNO|AIC\s?No), re.IGNORECASE
KtbAcLabels ==
    << Lit("A") \o <<Cls({"/", "|", "I"}, 0, 1)>> \o Lit("C")
           \o <<ClsFrom({"'"} \cup Space, 0)>> \o Lit("NO"),
       Lit("ACCOUNT") \o <<ClsFrom(Space, 0)>> \o Lit("NO"),
       Lit("AVCNO"),
       Lit("AIC") \o <<Cls(Space, 0, 1)>> \o Lit("NO") >>

AcNoChars == Digits \cup {"-", "="}

\* [;:\.\s\=]*\s*
KtbAcSep == <<ClsFrom({";", ":", ".", "="} \cup Space, 0), ClsFrom(Space, 0)>>

\* label [;:\.\s\=]*\s*([\d\-\=]{7,}) : ac_patterns[0]
KtbAcLong == [i \in DOMAIN KtbAcLabels |->
                 KtbAcLabels[i] \o KtbAcSep \o <<ClsFrom(AcNoChars, 7)>>]

\* Id>([\d-]{7,})</Id : ac_patterns[1]; the group is item 2
KtbAcId == <<Lit("ID>") \o <<ClsFrom(Digits \cup {"-"}, 7)>> \o Lit("</ID")>>

\* label [;:\.\s\=]*\s*([\d\-\=]+) : ac_patterns[2]
KtbAcShort == [i \in DOMAIN KtbAcLabels |->
                  KtbAcLabels[i] \o KtbAcSep \o <<ClsFrom(AcNoChars, 1)>>]

\* the candidate of the k-th pattern of ac_patterns: the stripped group with
\* '=' replaced by '-', or None when the pattern does not match
KtbAcCandidate(text, U, k) ==
    Only({IF ~m.found THEN None
          ELSE ReplaceCh(Strip(CASE k = 1 -> LastGroup(text, KtbAcLong, m)
                                 [] k = 2 -> Group(text, m, 2, 2)
                                 [] OTHER -> LastGroup(text, KtbAcShort, m)), "=", "-") :
          m \in {Search(CASE k = 1 -> KtbAcLong [] k = 2 -> KtbAcId [] OTHER -> KtbAcShort,
                        U, 1)}})

\* the shortest candidate that is stored as A/C No
MinAcLen == 5

RECURSIVE KtbAcNo(_, _, _)
\* the loop over ac_patterns: the first pattern that matches with a value of
\* at least 5 characters ends the loop
KtbAcNo(text, U, k) ==
    IF k > 3 THEN None
    ELSE Only({IF val # None /\ Len(val) >= MinAcLen THEN val ELSE KtbAcNo(text, U, k + 1) :
               val \in {KtbAcCandidate(text, U, k)}})

\* \d{1,2}-[\w]{3}-\d{4}
DMonY == <<Cls(Digits, 1, 2)>> \o Lit("-") \o <<Cls(WordCh, 3, 3)>> \o Lit("-")
             \o <<Cls(Digits, 4, 4)>>

\* Date\s*[;:\.]?\s*( d-mon-y ) : the group is items 5..9
KtbDateLabelled == <<Lit("DATE") \o <<ClsFrom(Space, 0), Cls({";", ":", "."}, 0, 1),
                                     ClsFrom(Space, 0)>> \o DMonY>>

\* (\b d-mon-y \b) : the group is items 2..6
KtbDateBare == <<<<Wb>> \o DMonY \o <<Wb>>>>

\* ([A-Z]+ \d{1,2}, \d{4}) : the whole match
KtbDateLong == <<<<ClsFrom(Upper, 1)>> \o Lit(" ") \o <<Cls(Digits, 1, 2)>> \o Lit(", ")
                    \o <<Cls(Digits, 4, 4)>>>>

\* Document Date of KrungthaiParser: the labelled form, else a bare
\* day-month-year, else the long form; the first that matches
KtbDate(text, U) ==
    Only({IF m1.found THEN Strip(Group(text, m1, 5, 9))
          ELSE Only({IF m2.found THEN Strip(Group(text, m2, 2, 6))
                     ELSE Only({IF m3.found THEN Strip(SubSeq(text, MStart(m3), MEnd(m3) - 1))
                                ELSE None :
                                m3 \in {Search(KtbDateLong, U, 1)}}) :
                     m2 \in {Search(KtbDateBare, U, 1)}}) :
          m1 \in {Search(KtbDateLabelled, U, 1)}})

RefChars == WordCh \cup {"/", " ", "-"}

\* \s*[;:\.]?\s*([\w\d/ -]{5,})
KtbRefTail == <<ClsFrom(Space, 0), Cls({";", ":", "."}, 0, 1), ClsFrom(Space, 0),
                ClsFrom(RefChars, 5)>>

\* (?:Our Ref|B/C|REFERENCE NO\.|Our Ref[:;]|c/o.*?[:;]) tail
KtbRefLabelled ==
    << Lit("OUR REF") \o KtbRefTail,
       Lit("B/C") \o KtbRefTail,
       Lit("REFERENCE NO.") \o KtbRefTail,
       Lit("OUR REF") \o <<Cls({":", ";"}, 1, 1)>> \o KtbRefTail,
       Lit("C/O") \o <<LazyDot, Cls({":", ";"}, 1, 1)>> \o KtbRefTail >>

\* \s?\d{2}/\d{4}
RefCodeTail == <<Cls(Space, 0, 1), Cls(Digits, 2, 2)>> \o Lit("/") \o <<Cls(Digits, 4, 4)>>

\* (?:OR|IC|EC|BC)\s?\d{2}/\d{4}
RefCodes == <<Lit("OR") \o RefCodeTail, Lit("IC") \o RefCodeTail,
              Lit("EC") \o RefCodeTail, Lit("BC") \o RefCodeTail>>

\* \b( code )\b
KtbRefBare == [i \in DOMAIN RefCodes |-> <<Wb>> \o RefCodes[i] \o <<Wb>>]

\* a captured reference that is discarded outright when it contains A/C,
\* AMOUNT or DATE
CleanRef_discard(raw) ==
    Only({IF \E x \in {"A/C", "AMOUNT", "DATE"} : In(x, ToUpper(ref_val))
          THEN None ELSE ref_val :
          ref_val \in {Strip(FirstLine(Strip(raw)))}})

\* the value of a captured reference: stripped, first line; when it contains
\* A/C, AMOUNT or DATE, only the reference code inside it, or None
CleanRef(raw) ==
    Only({IF \E x \in {"A/C", "AMOUNT", "DATE"} : In(x, ToUpper(ref_val))
          THEN Only({IF re_code.found
                     THEN SubSeq(ref_val, MStart(re_code), MEnd(re_code) - 1)
                     ELSE None :
                     re_code \in {Search(RefCodes, ToUpper(ref_val), 1)}})
          ELSE ref_val :
          ref_val \in {Strip(FirstLine(Strip(raw)))}})

\* Reference No of KrungthaiParser
KtbRef(text, U) ==
    Only({IF m1.found THEN CleanRef(LastGroup(text, KtbRefLabelled, m1))
          ELSE Only({IF m2.found
                     THEN CleanRef(Group(text, m2, 2, Len(KtbRefBare[m2.alt]) - 1))
                     ELSE None :
                     m2 \in {Search(KtbRefBare, U, 1)}}) :
          m1 \in {Search(KtbRefLabelled, U, 1)}})

\* DEBIT\s*ADVICE and CREDIT\s*ADVICE, re.IGNORECASE
DebitAdvice == <<Lit("DEBIT") \o <<ClsFrom(Space, 0)>> \o Lit("ADVICE")>>

CreditAdvice == <<Lit("CREDIT") \o <<ClsFrom(Space, 0)>> \o Lit("ADVICE")>>

\* a Transaction that knows the debit advice only
TransactionOf_debit_only(U) ==
    IF Search(DebitAdvice, U, 1).found THEN "DEBIT" ELSE None

\* Transaction of every parser
TransactionOf(U) ==
    IF Search(DebitAdvice, U, 1).found THEN "DEBIT"
    ELSE IF Search(CreditAdvice, U, 1).found THEN "CREDIT"
    ELSE None

\* ((?:\d{1,3}[\s,]*)+\.\d{2})(?!\d). The repeated group matches exactly
\* the strings that start with a digit and consist of digits, whitespace
\* and commas, and it must end where the '.' stands, so it is written as
\* \d[\d\s,]* here. Four items and the lookahead.
AmountCore == <<Cls(Digits, 1, 1), ClsFrom(Digits \cup Space \cup {","}, 0)>> \o Lit(".")
                  \o <<Cls(Digits, 2, 2), Nla(Digits)>>

\* [\s\.]*
AmountLead == <<ClsFrom(Space \cup {"."}, 0)>>

\* (?:[A-Z]{3}|[\$])?[\s\.]* core : the optional currency prefix (the Thai
\* letters and the baht sign of the source pattern are outside the ASCII
\* inputs of the model); case-sensitive
AmountAny == << <<Cls(Upper, 3, 3)>> \o AmountLead \o AmountCore,
                <<Cls({"$"}, 1, 1)>> \o AmountLead \o AmountCore,
                AmountLead \o AmountCore >>

\* (?:[A-Z]{3}|[\$])[\s\.]* core : the currency prefix is required
AmountWithCurrency == << <<Cls(Upper, 3, 3)>> \o AmountLead \o AmountCore,
                         <<Cls({"$"}, 1, 1)>> \o AmountLead \o AmountCore >>

\* (?:\d{1,3}[\s,]*)+\.\d{2}(?!\d) without a prefix
AmountBare == <<AmountCore>>

\* re.findall: the text of the amount group of every match; the group is the
\* four items before the final lookahead
FindAmounts(alts, s) ==
    Only({[i \in DOMAIN ms |->
             Group(s, ms[i], Len(alts[ms[i].alt]) - 4, Len(alts[ms[i].alt]) - 1)] :
          ms \in {FindIter(alts, s, 1)}})

\* a normalisation that removes the commas only
NormalizeAmount_commas(v) == RemoveChars(v, {","})

\* re.sub(r"[\s,]", "", value)
NormalizeAmount(v) == RemoveChars(v, Space \cup {","})

\* val_patterns of KrungthaiParser: (keyword pattern, pick_last), in order
val_patterns ==
    << [kw |-> <<Lit("A") \o <<Cls({"N", "M"}, 1, 1)>> \o Lit("OUNT")
                    \o <<ClsFrom(Space, 0)>> \o Lit("CREDITED")>>, pick_last |-> FALSE],
       [kw |-> <<Lit("TOTAL") \o <<ClsFrom(Space, 0)>> \o Lit("DEBITED")>>, pick_last |-> FALSE],
       [kw |-> <<Lit("TOTAL") \o <<ClsFrom(Space, 0)>> \o Lit("CREDITED")>>, pick_last |-> FALSE],
       [kw |-> <<Lit("TOTAL") \o <<ClsFrom(Space, 0)>> \o Lit("AMOUNT")>>, pick_last |-> FALSE],
       [kw |-> <<Lit("TOTAL") \o <<ClsFrom(Space, 0)>> \o Lit("VALUE")>>, pick_last |-> FALSE],
       [kw |-> <<Lit("DEBIT") \o <<ClsFrom(Space, 0)>> \o Lit("AMOUNT")>>, pick_last |-> FALSE],
       [kw |-> <<Lit("CREDIT") \o <<ClsFrom(Space, 0)>> \o Lit("AMOUNT")>>, pick_last |-> FALSE],
       [kw |-> <<Lit("AMOUNT")>>, pick_last |-> TRUE] >>

\* the keyword loop searching the whole chunk instead of the text after
\* the keyword
KeywordWindow_whole(text, U, k) ==
    IF ~Search(val_patterns[k].kw, U, 1).found THEN <<>>
    ELSE FindAmounts(AmountAny, text)

\* one round of the keyword loop: the values found after the first
\* occurrence of keyword k (lookahead_text = text[kw_match.end():])
KeywordWindow(text, U, k) ==
    Only({IF ~kw_match.found THEN <<>>
          ELSE FindAmounts(AmountAny, SubSeq(text, MEnd(kw_match), Len(text))) :
          kw_match \in {Search(val_patterns[k].kw, U, 1)}})

\* the tie-break with the flag read the other way round
PickValue_inverted(all_vals, pick_last) ==
    IF pick_last THEN all_vals[1] ELSE all_vals[Len(all_vals)]

\* all_vals[val_idx]
PickValue(all_vals, pick_last) ==
    IF pick_last THEN all_vals[Len(all_vals)] ELSE all_vals[1]

RECURSIVE KeywordValue(_, _, _)
\* the loop over val_patterns: the first keyword with a value after it wins
KeywordValue(text, U, k) ==
    IF k > Len(val_patterns) THEN None
    ELSE Only({IF all_vals # <<>>
               THEN NormalizeAmount(PickValue(all_vals, val_patterns[k].pick_last))
               ELSE KeywordValue(text, U, k + 1) :
               all_vals \in {KeywordWindow(text, U, k)}})

\* a last resort that takes the first amount of the chunk
LastResortValue_first(text) ==
    Only({IF all_vals # <<>> THEN NormalizeAmount(all_vals[1]) ELSE None :
          all_vals \in {FindAmounts(AmountAny, text)}})

\* "Absolute Last Resort": the last amount of the whole chunk
LastResortValue(text) ==
    Only({IF all_vals # <<>> THEN NormalizeAmount(all_vals[Len(all_vals)]) ELSE None :
          all_vals \in {FindAmounts(AmountAny, text)}})

\* Shipment\s*Receipt
ShipmentReceipt == <<Lit("SHIPMENT") \o <<ClsFrom(Space, 0)>> \o Lit("RECEIPT")>>

\* Total Value of KrungthaiParser, for a chunk with a transaction type
KtbTotalValue(text, U) ==
    IF Search(ShipmentReceipt, U, 1).found /\ ~In("ADVICE", U) THEN None
    ELSE Only({IF Truthy(byKeyword) THEN byKeyword ELSE LastResortValue(text) :
               byKeyword \in {KeywordValue(text, U, 1)}})

Fields(ac, date, ref, total, bank, company, transaction) ==
    ("A/C No" :> ac) @@ ("Document Date" :> date) @@ ("Reference No" :> ref)
    @@ ("Total Value" :> total) @@ ("Bank Name" :> bank)
    @@ ("Company Name" :> company) @@ ("Transaction" :> transaction)

\* the amount extraction without its guard
AmountAttempted_always(transaction) == TRUE

\* `if fields["Transaction"]:`, the guard of the amount extraction of
\* KrungthaiParser
AmountAttempted(transaction) == Truthy(transaction)

\* the fields KrungthaiParser.extract_chunk finds in text
KrungthaiFields(text, U) ==
    Only({Fields(KtbAcNo(text, U, 1), KtbDate(text, U), KtbRef(text, U),
                 IF AmountAttempted(transaction) THEN KtbTotalValue(text, U) ELSE None,
                 "Krungthai", None, transaction) :
          transaction \in {TransactionOf(U)}})

\* KrungthaiParser.extract_chunk
KrungthaiExtract(text) == Only({KrungthaiFields(text, U) : U \in {ToUpper(text)}})

\* Account\s*No[.,\s]*\s*([\d]+) : the group is the last item
CimbAcTail == Lit("ACCOUNT") \o <<ClsFrom(Space, 0)>> \o Lit("NO")
                  \o <<ClsFrom({".", ","} \cup Space, 0), ClsFrom(Space, 0),
                       ClsFrom(Digits, 1)>>

\* Current\s*Account\s*[\(\[]?\s*
CimbCurrentAccount == Lit("CURRENT") \o <<ClsFrom(Space, 0)>> \o Lit("ACCOUNT")
                          \o <<ClsFrom(Space, 0), Cls({"(", "["}, 0, 1), ClsFrom(Space, 0)>>

\* ac_patterns of CIMBParser; the fourth pattern continues after its group
\* with \s*[\)\]]?, which never fails and is left out
CimbAcPatterns ==
    << <<CimbAcTail>>,
       <<Lit("A/C") \o <<ClsFrom(Space, 0)>> \o Lit("NO")
             \o <<ClsFrom({".", ","} \cup Space, 0), ClsFrom(Space, 0), ClsFrom(Digits, 1)>>>>,
       <<Lit("DEBIT") \o <<ClsFrom(Space, 0)>> \o CimbCurrentAccount \o CimbAcTail>>,
       <<CimbCurrentAccount \o CimbAcTail>> >>

RECURSIVE FirstGroup(_, _, _, _)
\* `for pattern in patterns: if match: field = group(1).strip(); break`,
\* for patterns that end with their group
FirstGroup(patterns, text, U, k) ==
    IF k > Len(patterns) THEN None
    ELSE Only({IF m.found THEN Strip(LastGroup(text, patterns[k], m))
               ELSE FirstGroup(patterns, text, U, k + 1) :
               m \in {Search(patterns[k], U, 1)}})

\* Date\s*[:]\s*
CimbDateLabel == Lit("DATE") \o <<ClsFrom(Space, 0)>> \o Lit(":") \o <<ClsFrom(Space, 0)>>

\* Date\s*[:]\s*(\d{1,2}/\d{1,2}/\d{4}) : the group is items 5..9
CimbDateSlash == <<CimbDateLabel \o <<Cls(Digits, 1, 2)>> \o Lit("/") \o <<Cls(Digits, 1, 2)>>
                      \o Lit("/") \o <<Cls(Digits, 4, 4)>>>>

\* Date\s*[:]\s*(\d{1,2}-\d{1,2}-\d{4}) : the group is items 5..9
CimbDateHyphen == <<CimbDateLabel \o <<Cls(Digits, 1, 2)>> \o Lit("-") \o <<Cls(Digits, 1, 2)>>
                       \o Lit("-") \o <<Cls(Digits, 4, 4)>>>>

\* Document Date of CIMBParser
CimbDate(text, U) ==
    Only({IF m1.found THEN Strip(Group(text, m1, 5, 9))
          ELSE Only({IF m2.found THEN Strip(Group(text, m2, 5, 9)) ELSE None :
                     m2 \in {Search(CimbDateHyphen, U, 1)}}) :
          m1 \in {Search(CimbDateSlash, U, 1)}})

\* \s*[:;.-]?\s*
CimbRefSep == <<ClsFrom(Space, 0), Cls({":", ";", ".", "-"}, 0, 1), ClsFrom(Space, 0)>>

\* ref_patterns of CIMBParser
CimbRefPatterns ==
    << <<Lit("INWARD") \o <<ClsFrom(Space, 0)>> \o Lit("BILL") \o <<ClsFrom(Space, 0)>>
             \o Lit("COLLECTION") \o <<ClsFrom(Space, 0)>> \o Lit("NO")
             \o <<Cls({"."}, 0, 1)>> \o CimbRefSep \o <<ClsFrom(WordCh \cup {"/", "-"}, 5)>>>>,
       <<Lit("OUR") \o <<ClsFrom(Space, 0)>> \o Lit("REF") \o CimbRefSep
             \o <<ClsFrom(WordCh \cup {"/", "-"}, 5)>>>>,
       <<Lit("SWIFT") \o <<ClsFrom(Space, 0)>> \o Lit("ID") \o CimbRefSep
             \o <<ClsFrom(WordCh, 5)>>>> >>

\* Total Value of CIMBParser, for a chunk with a transaction type: the last
\* amount that follows a currency, else the last amount
CimbTotalValue(text) ==
    Only({IF cur_vals # <<>> THEN NormalizeAmount(cur_vals[Len(cur_vals)])
          ELSE Only({IF all_vals # <<>> THEN NormalizeAmount(all_vals[Len(all_vals)])
                     ELSE None :
                     all_vals \in {FindAmounts(AmountBare, text)}}) :
          cur_vals \in {FindAmounts(AmountWithCurrency, text)}})

\* the fields CIMBParser.extract_chunk finds in text
CIMBFields(text, U) ==
    Only({Fields(FirstGroup(CimbAcPatterns, text, U, 1), CimbDate(text, U),
                 FirstGroup(CimbRefPatterns, text, U, 1),
                 IF Truthy(transaction) THEN CimbTotalValue(text) ELSE None,
                 "CIMB", None, transaction) :
          transaction \in {TransactionOf(U)}})

\* CIMBParser.extract_chunk
CIMBExtract(text) == Only({CIMBFields(text, U) : U \in {ToUpper(text)}})

\* a generic fallback built on the CIMB extraction instead of the Krungthai one
GenericExtract_cimb(text) == [CIMBExtract(text) EXCEPT !["Bank Name"] = None]

\* GenericParser.extract_chunk: the Krungthai extraction with data["Bank Name"] = None
GenericExtract(text) == [KrungthaiExtract(text) EXCEPT !["Bank Name"] = None]

\* a strategy chosen again for every chunk, from the chunk's own text
extract_chunk_per_chunk(parser, chunk) ==
    CASE get_bank_parser(chunk) = "KrungthaiParser" -> KrungthaiExtract(chunk)
      [] get_bank_parser(chunk) = "CIMBParser" -> CIMBExtract(chunk)
      [] OTHER -> GenericExtract(chunk)

\* parser.extract_chunk(chunk) for the parser get_bank_parser chose
extract_chunk(parser, chunk) ==
    CASE parser = "KrungthaiParser" -> KrungthaiExtract(chunk)
      [] parser = "CIMBParser" -> CIMBExtract(chunk)
      [] OTHER -> GenericExtract(chunk)

\* ------------------------------------------------------------------------
\* Master-account lookup (lookup_master)
\* ------------------------------------------------------------------------

\* master_path is None
NoMasterPath == [path |-> FALSE, exists |-> FALSE, rows |-> <<>>]

\* master_path names a file that does not exist
MissingMaster == [path |-> TRUE, exists |-> FALSE, rows |-> <<>>]

\* master_path names a workbook with these rows
Master(rows) == [path |-> TRUE, exists |-> TRUE, rows |-> rows]

Row(acno, bank, name, currency) ==
    [ACNO |-> acno, BankName |-> bank, AccountName |-> name, Currency |-> currency]

\* df['ACNO'].astype(str).str.replace("'", "").str.strip()
CleanDirectoryAc(acno) == Strip(RemoveChars(acno, {"'"}))

\* str(ac_no).strip().replace(" ", "")
CleanInputAc(ac_no) == RemoveChars(Strip(ac_no), {" "})

\* the lambda of the row filter: clean_ac in x or x in clean_ac
RowMatches(clean_ac, x) == In(clean_ac, x) \/ In(x, clean_ac)

NotFound == <<None, None, None>>

\* lookup_master(ac_no, master_path): (BankName, AccountName, Currency) of
\* the first matching row, else (None, None, None)
lookup_master(ac_no, master) ==
    IF ~Truthy(ac_no) \/ ~master.exists THEN NotFound
    ELSE Only({IF match # <<>>
               THEN <<match[1].BankName, match[1].AccountName, match[1].Currency>>
               ELSE NotFound :
               match \in {SelectSeq(master.rows,
                                    LAMBDA r : RowMatches(CleanInputAc(ac_no),
                                                          CleanDirectoryAc(r.ACNO)))}})

\* the body of the enrichment loop of process_single_pdf for one record
EnrichRecord(rec, master) ==
    IF ~master.path THEN rec
    ELSE Only({("Bank Name" :> found[1]) @@ ("Company Name" :> found[2])
               @@ ("Currency" :> found[3]) @@ rec :
               found \in {lookup_master(rec["A/C No"], master)}})

\* ------------------------------------------------------------------------
\* The chunk loop of extract_all_entries
\* ------------------------------------------------------------------------

HeaderKeys == {"Document Date", "Reference No", "A/C No"}

\* is_actual_advice: DEBIT\s*ADVICE|CREDIT\s*ADVICE, re.IGNORECASE
IsActualAdvice(chunk) == Search(DebitAdvice \o CreditAdvice, ToUpper(chunk), 1).found

\* the merge without the fill from header_state
MergedData_unfilled(d, hs) == d

\* "Merge with previous header state", the record: a header field the chunk
\* lacks is taken from header_state
MergedData(d, hs) ==
    [k \in DOMAIN d |-> IF k \in HeaderKeys /\ ~Truthy(d[k]) THEN hs[k] ELSE d[k]]

\* "Merge with previous header state", the state: a header field the chunk
\* has replaces the one of header_state
MergedHeader(d, hs) == [k \in HeaderKeys |-> IF Truthy(d[k]) THEN d[k] ELSE hs[k]]

\* the promotion without its filter: every chunk's record is appended
Promoted_unfiltered(chunk, d) == TRUE

\* `if is_actual_advice or data["Transaction"]`
Promoted(chunk, d) == IsActualAdvice(chunk) \/ Truthy(d["Transaction"])

\* the elif of the promotion: there is a last result and the record has
\* nothing but page, bank name and header fields
FoldsBack(res, d) ==
    res # <<>> /\ ~\E k \in DOMAIN d \ ({"Page", "Bank Name"} \cup HeaderKeys) : Truthy(d[k])

\* a back-fill that also replaces header fields the last result already has
BackFilled_overwrite(last_res, d) ==
    [k \in DOMAIN last_res |->
        IF k \in HeaderKeys /\ Truthy(d[k]) THEN d[k] ELSE last_res[k]]

\* "Update last result with potential header info from this chunk"
BackFilled(last_res, d) ==
    [k \in DOMAIN last_res |->
        IF k \in HeaderKeys /\ ~Truthy(last_res[k]) /\ Truthy(d[k]) THEN d[k]
        ELSE last_res[k]]

\* results after the promotion decision for the merged record d of chunk
NextResults(res, chunk, d) ==
    IF Promoted(chunk, d) THEN Append(res, d)
    ELSE IF FoldsBack(res, d)
         THEN [res EXCEPT ![Len(res)] = BackFilled(res[Len(res)], d)]
         ELSE res

\* the offset advanced by the length of the stripped chunk
NextPos_stripped(pos, chunk) == pos + Len(Strip(chunk))

\* current_pos += len(chunk)
NextPos(pos, chunk) == pos + Len(chunk)

\* ------------------------------------------------------------------------
\* Inputs
\* ------------------------------------------------------------------------

\* pages per document
MaxPages == 2

\* The text the OCR engine returns for one page: the cases of
\* verify_filtering.py, test_regex.py and tests/reproduce_cimb.py, and OCR
\* line breaks and dropped spaces inside a marker.
PageTexts ==
    { "",
      "Krungthai Bank\nA/C NO : 000613-001",
      "CREDIT ADVICE\nDate : 02-Jan-2024\nTotal Amount : 2,500.00",
      "KRUNGTHAI BANK\nDEBIT ADVICE\nA/C NO : 9943000613001\nDate : 01-Jan-2024\nOur Ref : OR12/2024\nTotal Amount : 1,000.00",
      "SOME OTHER DOCUMENT\nDate : 01-Jan-2024\nAmount : 5,000.00",
      "Shipment Receipt\nRECEIPT NO. 7781\nTotal 48 022.84",
      "DEBIT ADVICE 1.00\nCREDIT ADVICE 2.00",
      "DEBIT ADVICE\nwe DEBIT\nADVICE you",
      "CIMB BANK\nDate: 23/12/2025\nDEBIT ADVICE\nAccount No. 2200027067340\nUSD132,292.73",
      "Our Ref : IC 25/0662",
      "DEBITADVICE 5.00",
      "Shipment Receipt No. 7781" }

\* The account directory process_single_pdf is given: no path, a path to a
\* missing file, or a workbook.
MasterChoices ==
    { NoMasterPath,
      MissingMaster,
      Master(<<Row("'9943-000613-001", "KTB", "CP Trading", "USD")>>),
      Master(<<Row("2200027067340", "CIMB Bank", "CP Trading", "SGD"),
               Row("123-456-789", "Krungthai Bank", "CP Foods", "THB")>>) }

\* The chunk texts extract_chunk is called on directly: a first line with or
\* without an advice marker, then lines with and without amount keywords,
\* the amounts in the forms OCR gives them (test_regex.py).
ChunkHeads == {"DEBIT ADVICE", "CREDIT ADVICE", "RECEIPT"}

ChunkLeadLines == {"", "\nFOR USD 87,215.55", "\nBill Amount : USD 87,215.55"}

ChunkAmountLines ==
    { "",
      "\nTotal Debited : USD 87,300.06",
      "\nTotal Amount : 48,022.84",
      "\nAmount Credited 48 022.84",
      "\nBalance -3.10",
      "\nTotal Value: 12.345",
      "\nTHB1 2,3 4.50 9" }

ChunkTailLines == {"", "\nSwift : USD 30.00"}

\* Chunks with a keyword that has no amount behind it, with short account
\* numbers and with reference values that run into the next label.
ChunkSpecimens ==
    { "DEBIT ADVICE\nFOR USD 87,215.55\nSwift : USD 30.00\nTotal Amount :",
      "CREDIT ADVICE\nAmount : see below",
      "DEBIT ADVICE\nA/C No. 123\nUSD 10.00",
      "DEBIT ADVICE\nAccount No. 12\nA/C No. 2200027067340",
      "DEBIT ADVICE\nA/C NO : 12345",
      "DEBIT ADVICE\nA/C NO : 1234\nId>1234567</Id>",
      "DEBIT ADVICE\nOur Ref : OR12/2024 A/C NO : 000613-001",
      "DEBIT ADVICE\nOur Ref : 12345 Date : 01-Jan-2024",
      "CREDIT ADVICE\nOur Ref : IC 25/0662 \nTotal Amount : 9.00",
      "CREDIT ADVICE\nReference No. EC 01/2025 amount due" }

ChunkTexts ==
    {h \o l \o a \o t : h \in ChunkHeads, l \in ChunkLeadLines,
                        a \in ChunkAmountLines, t \in ChunkTailLines}
        \cup PageTexts \cup ChunkSpecimens

\* what extract_all_entries is called with directly: a text, or None
DirectArgs == PageTexts \cup {None}

\* calls made in a row by one process
MaxCalls == 2

Parsers == {"KrungthaiParser", "CIMBParser", "GenericParser"}

RECURSIVE IntStr(_)
\* str(n) for n >= 0, as the f-string of the page marker formats it
IntStr(n) == IF n < 10 THEN DigitSeq[n + 1] ELSE IntStr(n \div 10) \o DigitSeq[(n % 10) + 1]

\* f"--- Page {i + 1} ---\n{page_text}\n\n", i the 0-based page index
PageBlock(i, page_text) == "--- Page " \o IntStr(i + 1) \o " ---\n" \o page_text \o "\n\n"

\* ------------------------------------------------------------------------
\* Date normalisation (db_manager.normalize_date)
\* ------------------------------------------------------------------------

\* str.lower() on one character
LowCh == [c \in Upper |-> LowerSeq[CHOOSE i \in DOMAIN UpperSeq : UpperSeq[i] = c]]

\* str.lower()
ToLower(s) == MapChars(s, LowCh, 1, Len(s))

\* f"{n:02d}" without the padding
Pad2_plain(n) == IntStr(n)

\* f"{n:02d}"
Pad2(n) == IF n < 10 THEN "0" \o IntStr(n) ELSE IntStr(n)

\* the keys with 'jun' and 'jul' in each other's place
months_map_swapped == <<"jan", "feb", "mar", "apr", "may", "jul",
                        "jun", "aug", "sep", "oct", "nov", "dec">>

\* the keys of months_map in the order of the dict; the value of the i-th
\* key is the two-digit string of i
months_map == <<"jan", "feb", "mar", "apr", "may", "jun",
                "jul", "aug", "sep", "oct", "nov", "dec">>

\* months_map.get(mon, '01')
MonthGet(mon) ==
    IF \E i \in DOMAIN months_map : months_map[i] = mon
    THEN Pad2(CHOOSE i \in DOMAIN months_map : months_map[i] = mon)
    ELSE "01"

\* mon_num = '01', then the value of the first key that mon_name starts with
MonthByPrefix(mon_name) ==
    Only({IF hits = {} THEN "01" ELSE Pad2(CHOOSE i \in hits : \A j \in hits : i <= j) :
          hits \in {{i \in DOMAIN months_map :
                       /\ Len(months_map[i]) <= Len(mon_name)
                       /\ SubSeq(mon_name, 1, Len(months_map[i])) = months_map[i]}}})

\* the four patterns, in the order in which normalize_date tries them:
\* (\d{1,2})-([a-zA-Z]{3})-(\d{4})      (\d{1,2})/(\d{1,2})/(\d{4})
\* ([a-zA-Z]+)\s+(\d{1,2}),\s+(\d{4})   (\d{4})[-/](\d{1,2})[-/](\d{1,2})
DateCases ==
    <<<<Cls(Digits, 1, 2)>> \o Lit("-") \o <<Cls(Upper \cup Lower, 3, 3)>> \o Lit("-")
          \o <<Cls(Digits, 4, 4)>>,
      <<Cls(Digits, 1, 2)>> \o Lit("/") \o <<Cls(Digits, 1, 2)>> \o Lit("/")
          \o <<Cls(Digits, 4, 4)>>,
      <<ClsFrom(Upper \cup Lower, 1), ClsFrom(Space, 1), Cls(Digits, 1, 2)>> \o Lit(",")
          \o <<ClsFrom(Space, 1), Cls(Digits, 4, 4)>>,
      <<Cls(Digits, 4, 4), Cls({"-", "/"}, 1, 1), Cls(Digits, 1, 2),
        Cls({"-", "/"}, 1, 1), Cls(Digits, 1, 2)>>>>

\* re.match(pat, s): a match that starts at the first character, as a set of
\* at most one element
ReMatch(pat, s) == MatchAlts(<<pat>>, s, 1, 1)

\* normalize_date; the groups of a match are the items 1, 3, 5 of a pattern
\* (1, 3, 6 of the third)
normalize_date(date_str) ==
    IF ~Truthy(date_str) THEN None
    ELSE Only({Only({
        IF m1 # {} THEN Only({Group(s, m, 5, 5) \o "-" \o MonthGet(ToLower(Group(s, m, 3, 3)))
                                \o "-" \o Pad2(ParseInt(Group(s, m, 1, 1))) : m \in m1})
        ELSE Only({
        IF m2 # {} THEN Only({Group(s, m, 5, 5) \o "-" \o Pad2(ParseInt(Group(s, m, 3, 3)))
                                \o "-" \o Pad2(ParseInt(Group(s, m, 1, 1))) : m \in m2})
        ELSE Only({
        IF m3 # {} THEN Only({Group(s, m, 6, 6) \o "-" \o MonthByPrefix(ToLower(Group(s, m, 1, 1)))
                                \o "-" \o Pad2(ParseInt(Group(s, m, 3, 3))) : m \in m3})
        ELSE Only({
        IF m4 # {} THEN Only({Group(s, m, 1, 1) \o "-" \o Pad2(ParseInt(Group(s, m, 3, 3)))
                                \o "-" \o Pad2(ParseInt(Group(s, m, 5, 5))) : m \in m4})
        ELSE s
        : m4 \in {ReMatch(DateCases[4], s)}})
        : m3 \in {ReMatch(DateCases[3], s)}})
        : m2 \in {ReMatch(DateCases[2], s)}})
        : m1 \in {ReMatch(DateCases[1], s)}})
        : s \in {Strip(date_str)}})

\* the month names the inputs are written with
MonthNames == <<"January", "February", "March", "April", "May", "June", "July",
                "August", "September", "October", "November", "December">>

\* a day or month number written with two digits
TwoDigits(n) == IF n < 10 THEN "0" \o DigitSeq[n + 1] ELSE IntStr(n)

\* the date strings given to normalize_date, each with the date it denotes
\* in ISO form: the formats of test_date_normalization.py, and the numeric
\* form with hyphens that CIMBParser captures
DatedInputs ==
    UNION {Only({{[fmt |-> "DD-Mon-YYYY", iso |-> iso,
             s |-> TwoDigits(d) \o "-" \o SubSeq(MonthNames[m], 1, 3) \o "-" \o y],
            [fmt |-> "DD-MON-YYYY", iso |-> iso,
             s |-> TwoDigits(d) \o "-" \o ToUpper(SubSeq(MonthNames[m], 1, 3)) \o "-" \o y],
            [fmt |-> "DD/MM/YYYY", iso |-> iso,
             s |-> TwoDigits(d) \o "/" \o TwoDigits(m) \o "/" \o y],
            [fmt |-> "D/M/YYYY", iso |-> iso,
             s |-> IntStr(d) \o "/" \o IntStr(m) \o "/" \o y],
            [fmt |-> "Month DD, YYYY", iso |-> iso,
             s |-> MonthNames[m] \o " " \o TwoDigits(d) \o ", " \o y],
            [fmt |-> "Mon DD, YYYY", iso |-> iso,
             s |-> SubSeq(MonthNames[m], 1, 3) \o " " \o TwoDigits(d) \o ", " \o y],
            [fmt |-> "YYYY-MM-DD", iso |-> iso, s |-> iso],
            [fmt |-> "DD-MM-YYYY", iso |-> iso,
             s |-> TwoDigits(d) \o "-" \o TwoDigits(m) \o "-" \o y]} :
           iso \in {y \o "-" \o TwoDigits(m) \o "-" \o TwoDigits(d)}}) :
           d \in {1, 5, 23, 31}, m \in 1..12, y \in {"1999", "2025"}}

\* None, the empty string, and strings that are not dates of a supported
\* format
UndatedInputs ==
    {None, "", "hello", " n/a ", "15-Foo-2024", "Foo 15, 2024", "2024.05.20", "Q1 2024"}

\* ------------------------------------------------------------------------
\* State
\* ------------------------------------------------------------------------

VARIABLES
    pc,            \* where the run is: "ocr", "extract", "loop", "returned", "raised", "done"
    caller,        \* "process_single_pdf", or "direct" for a call of extract_all_entries
    page_i,        \* pages recognised so far (the index i of ocr_tesseract's loop)
    text,          \* the OCR text
    parser,        \* the strategy get_bank_parser chose
    page_map,      \* (offset, page number) per page marker
    chunks,        \* the result of re.split
    ci,            \* index of the chunk the loop is at (1-based)
    current_pos,   \* the running offset of the loop
    header_state,  \* carry-forward of Document Date, Reference No, A/C No
    data,          \* the record of the chunk processed last
    results,       \* the list of promoted records
    master,        \* the directory behind master_path, once the enrichment read it
    earlier,       \* what the earlier calls of extract_all_entries in this process returned
    table,         \* the rows of the transactions table, the id of a row its index
    outcome        \* the last call of a db_manager function: its arguments and what it returned

vars == <<pc, caller, page_i, text, parser, page_map, chunks, ci, current_pos,
          header_state, data, results, master, earlier, table, outcome>>

NoHeader == [k \in HeaderKeys |-> None]

\* `data` before the first chunk is processed
NoData == ("Page" :> 0) @@ Fields(None, None, None, None, None, None, None)

Init ==
    /\ pc = "ocr"
    /\ caller = "process_single_pdf"
    /\ page_i = 0
    /\ text = ""
    /\ parser = None
    /\ page_map = <<>>
    /\ chunks = <<>>
    /\ ci = 0
    /\ current_pos = 0
    /\ header_state = NoHeader
    /\ data = NoData
    /\ results = <<>>
    /\ master = None
    /\ earlier = <<>>
    /\ table = <<>>
    /\ outcome = [call |-> None, args |-> <<>>, ret |-> <<>>]

\* ------------------------------------------------------------------------
\* Actions
\* ------------------------------------------------------------------------

\* ocr_tesseract, one round of the page loop
OcrPage ==
    /\ pc = "ocr"
    /\ page_i < MaxPages
    /\ \E page_text \in PageTexts : text' = text \o PageBlock(page_i, page_text)
    /\ page_i' = page_i + 1
    /\ UNCHANGED <<pc, caller, parser, page_map, chunks, ci, current_pos,
                   header_state, data, results, master, earlier, table, outcome>>

\* ocr_tesseract returns; process_single_pdf is about to call extract_all_entries
OcrReturn ==
    /\ pc = "ocr"
    /\ pc' = "extract"
    /\ UNCHANGED <<caller, page_i, text, parser, page_map, chunks, ci, current_pos,
                   header_state, data, results, master, earlier, table, outcome>>

\* extract_all_entries called on a text directly (verify_filtering.py,
\* tests/reproduce_cimb.py)
DirectCall ==
    /\ pc = "ocr"
    /\ page_i = 0
    /\ \E t \in DirectArgs : text' = t
    /\ caller' = "direct"
    /\ pc' = "extract"
    /\ UNCHANGED <<page_i, parser, page_map, chunks, ci, current_pos,
                   header_state, data, results, master, earlier, table, outcome>>

\* get_bank_parser(text) on an argument without .upper(): the AttributeError
\* leaves extract_all_entries, which has no handler
BeginRaises ==
    /\ pc = "extract"
    /\ text = None
    /\ pc' = "raised"
    /\ UNCHANGED <<caller, page_i, text, parser, page_map, chunks, ci, current_pos,
                   header_state, data, results, master, earlier, table, outcome>>

\* the start of a call that goes on with the header state it finds
Begin_stale_header ==
    /\ pc = "extract"
    /\ text # None
    /\ parser' = get_bank_parser(text)
    /\ page_map' = BuildPageMap(text)
    /\ chunks' = SplitChunks(text)
    /\ results' = <<>>
    /\ header_state' = header_state
    /\ current_pos' = 0
    /\ ci' = 1
    /\ pc' = "loop"
    /\ UNCHANGED <<caller, page_i, text, data, master, earlier, table, outcome>>

\* extract_all_entries up to the chunk loop
Begin ==
    /\ pc = "extract"
    /\ text # None
    /\ parser' = get_bank_parser(text)
    /\ page_map' = BuildPageMap(text)
    /\ chunks' = SplitChunks(text)
    /\ results' = <<>>
    /\ header_state' = NoHeader
    /\ current_pos' = 0
    /\ ci' = 1
    /\ pc' = "loop"
    /\ UNCHANGED <<caller, page_i, text, data, master, earlier, table, outcome>>

\* `if not chunk: continue`
SkipEmptyChunk ==
    /\ pc = "loop"
    /\ ci <= Len(chunks)
    /\ chunks[ci] = ""
    /\ ci' = ci + 1
    /\ UNCHANGED <<pc, caller, page_i, text, parser, page_map, chunks, current_pos,
                   header_state, data, results, master, earlier, table, outcome>>

\* one round of the chunk loop for a non-empty chunk
ProcessChunk ==
    /\ pc = "loop"
    /\ ci <= Len(chunks)
    /\ chunks[ci] # ""
    /\ \E extracted \in {("Page" :> DeterminePage(page_map, current_pos))
                              @@ extract_chunk(parser, chunks[ci])} :
       \E merged \in {MergedData(extracted, header_state)} :
          /\ data' = merged
          /\ header_state' = MergedHeader(extracted, header_state)
          /\ results' = NextResults(results, chunks[ci], merged)
          /\ current_pos' = NextPos(current_pos, chunks[ci])
    /\ ci' = ci + 1
    /\ UNCHANGED <<pc, caller, page_i, text, parser, page_map, chunks, master, earlier, table, outcome>>

\* `return results`
Return ==
    /\ pc = "loop"
    /\ ci > Len(chunks)
    /\ pc' = "returned"
    /\ UNCHANGED <<caller, page_i, text, parser, page_map, chunks, ci, current_pos,
                   header_state, data, results, master, earlier, table, outcome>>

\* the enrichment loop of process_single_pdf over the returned entries
Enrich ==
    /\ pc = "returned"
    /\ caller = "process_single_pdf"
    /\ \E m \in MasterChoices :
          /\ master' = m
          /\ results' = [i \in DOMAIN results |-> EnrichRecord(results[i], m)]
    /\ pc' = "done"
    /\ UNCHANGED <<caller, page_i, text, parser, page_map, chunks, ci, current_pos,
                   header_state, data, earlier, table, outcome>>

Next ==
    \/ OcrPage
    \/ OcrReturn
    \/ DirectCall
    \/ Begin
    \/ BeginRaises
    \/ SkipEmptyChunk
    \/ ProcessChunk
    \/ Return
    \/ Enrich

Spec == Init /\ [][Next]_vars

\* ------------------------------------------------------------------------
\* several documents in one process (verify_filtering.py calls
\* extract_all_entries three times in a row)
\* ------------------------------------------------------------------------

\* the caller goes on to its next call once the previous one has returned or
\* raised; what the finished call left behind stays where it is
NextCall ==
    /\ pc \in {"returned", "raised"}
    /\ caller = "direct"
    /\ Len(earlier) + 1 < MaxCalls
    /\ earlier' = Append(earlier, IF pc = "raised" THEN None ELSE results)
    /\ pc' = "ocr"
    /\ UNCHANGED <<caller, page_i, text, parser, page_map, chunks, ci, current_pos,
                   header_state, data, results, master, table, outcome>>

NextBatch ==
    \/ DirectCall
    \/ Begin
    \/ BeginRaises
    \/ SkipEmptyChunk
    \/ ProcessChunk
    \/ Return
    \/ NextCall

SpecBatch == Init /\ [][NextBatch]_vars

\* ------------------------------------------------------------------------
\* extract_chunk called on its own (tests/reproduce_cimb.py)
\* ------------------------------------------------------------------------

InitChunk ==
    /\ pc = "chunk_input"
    /\ caller = "direct"
    /\ page_i = 0
    /\ text = ""
    /\ parser = None
    /\ page_map = <<>>
    /\ chunks = <<>>
    /\ ci = 0
    /\ current_pos = 0
    /\ header_state = NoHeader
    /\ data = NoData
    /\ results = <<>>
    /\ master = None
    /\ earlier = <<>>
    /\ table = <<>>
    /\ outcome = [call |-> None, args |-> <<>>, ret |-> <<>>]

\* the test picks a parser and a chunk text
ChooseChunk ==
    /\ pc = "chunk_input"
    /\ \E t \in ChunkTexts : text' = t
    /\ \E p \in Parsers : parser' = p
    /\ pc' = "chunk_call"
    /\ UNCHANGED <<caller, page_i, page_map, chunks, ci, current_pos, header_state,
                   data, results, master, earlier, table, outcome>>

\* parser.extract_chunk(text)
ExtractChunk ==
    /\ pc = "chunk_call"
    /\ data' = ("Page" :> 0) @@ extract_chunk(parser, text)
    /\ pc' = "chunk_done"
    /\ UNCHANGED <<caller, page_i, text, parser, page_map, chunks, ci, current_pos,
                   header_state, results, master, earlier, table, outcome>>

NextChunk ==
    \/ ChooseChunk
    \/ ExtractChunk

SpecChunk == InitChunk /\ [][NextChunk]_vars

\* ------------------------------------------------------------------------
\* normalize_date called on its own (test_date_normalization.py), and again
\* on what it returned (load_records, on the dates save_records stored)
\* ------------------------------------------------------------------------

InitDate ==
    /\ pc = "date_input"
    /\ caller = "direct"
    /\ page_i = 0
    /\ text = ""
    /\ parser = None
    /\ page_map = <<>>
    /\ chunks = <<>>
    /\ ci = 0
    /\ current_pos = 0
    /\ header_state = NoHeader
    /\ data = NoData
    /\ results = <<>>
    /\ master = None
    /\ earlier = <<>>
    /\ table = <<>>
    /\ outcome = [call |-> None, args |-> <<>>, ret |-> <<>>]

\* the caller picks the value of a Document Date
ChooseDate ==
    /\ pc = "date_input"
    /\ \E x \in {r.s : r \in DatedInputs} \cup UndatedInputs : text' = x
    /\ pc' = "date_call"
    /\ UNCHANGED <<caller, page_i, parser, page_map, chunks, ci, current_pos,
                   header_state, data, results, master, earlier, table, outcome>>

\* normalize_date(text); the record keeps the returned Document Date
NormalizeDate ==
    /\ pc = "date_call"
    /\ data' = [data EXCEPT !["Document Date"] = normalize_date(text)]
    /\ pc' = "date_done"
    /\ UNCHANGED <<caller, page_i, text, parser, page_map, chunks, ci, current_pos,
                   header_state, results, master, earlier, table, outcome>>

\* df["Document Date"].apply(normalize_date) on the record read back
NormalizeAgain ==
    /\ pc = "date_done"
    /\ results' = <<[data EXCEPT !["Document Date"] = normalize_date(@)]>>
    /\ pc' = "date_loaded"
    /\ UNCHANGED <<caller, page_i, text, parser, page_map, chunks, ci, current_pos,
                   header_state, data, master, earlier, table, outcome>>

NextDate ==
    \/ ChooseDate
    \/ NormalizeDate
    \/ NormalizeAgain

SpecDate == InitDate /\ [][NextDate]_vars

\* ------------------------------------------------------------------------
\* ocr_typhoon: the remote recognizer, page by page, with the local
\* recognizer as the fallback of a page whose request fails
\* ------------------------------------------------------------------------

\* f"--- Page {i + 1} (Fallback Tesseract) ---\n{page_text}\n\n"
FallbackBlock(i, page_text) ==
    "--- Page " \o IntStr(i + 1) \o " (Fallback Tesseract) ---\n" \o page_text \o "\n\n"

\* ocr_typhoon, one round of the page loop: the request succeeds, or it
\* raises and the except branch recognises the page locally
OcrTyphoonPage ==
    /\ pc = "ocr"
    /\ page_i < MaxPages
    /\ \E page_text \in PageTexts, ok \in BOOLEAN :
          text' = text \o IF ok THEN PageBlock(page_i, page_text)
                          ELSE FallbackBlock(page_i, page_text)
    /\ page_i' = page_i + 1
    /\ UNCHANGED <<pc, caller, parser, page_map, chunks, ci, current_pos,
                   header_state, data, results, master, earlier, table, outcome>>

NextTyphoon ==
    \/ OcrTyphoonPage
    \/ OcrReturn
    \/ Begin
    \/ SkipEmptyChunk
    \/ ProcessChunk
    \/ Return

SpecTyphoon == Init /\ [][NextTyphoon]_vars

\* ------------------------------------------------------------------------
\* db_manager: the account directory (ac_master) and the transactions table
\* ------------------------------------------------------------------------

\* a lookup that returns the last matching row
lookup_master_info_last(ac_no, ac_master) ==
    IF ~Truthy(ac_no) THEN NotFound
    ELSE Only({IF clean_input = "" \/ ~ac_master.exists THEN NotFound
               ELSE Only({IF match # <<>>
                          THEN <<match[Len(match)].BankName, match[Len(match)].AccountName,
                                 match[Len(match)].Currency>>
                          ELSE NotFound :
                          match \in {SelectSeq(ac_master.rows,
                              LAMBDA r : Only({In(x, clean_input) \/ In(clean_input, x) :
                                  x \in {RemoveChars(Strip(r.ACNO), {"'", " ", "-"})}}))}}) :
               clean_input \in {RemoveChars(Strip(ac_no), {" ", "-"})}})

\* lookup_master_info(ac_no): (bank_name, account_name, currency) of the
\* first row of ac_master that matches, else (None, None, None). ac_master
\* is the table the workbook was migrated into, so its rows are Rows;
\* ac_master.exists is false when reading the table raises.
\* clean_input = str(ac_no).strip().replace(" ", "").replace("-", "");
\* clean_ac = the same with the apostrophes removed as well
lookup_master_info(ac_no, ac_master) ==
    IF ~Truthy(ac_no) THEN NotFound
    ELSE Only({IF clean_input = "" \/ ~ac_master.exists THEN NotFound
               ELSE Only({IF match # <<>>
                          THEN <<match[1].BankName, match[1].AccountName, match[1].Currency>>
                          ELSE NotFound :
                          match \in {SelectSeq(ac_master.rows,
                              LAMBDA r : Only({In(x, clean_input) \/ In(clean_input, x) :
                                  x \in {RemoveChars(Strip(r.ACNO), {"'", " ", "-"})}}))}}) :
               clean_input \in {RemoveChars(Strip(ac_no), {" ", "-"})}})

\* float(s) does not raise ValueError, for the numerals the forms produce:
\* an optional sign, digits with at most one point, blanks around it
IsDecimal(s) ==
    Only({/\ Len(v) > 0
          /\ \A i \in 1..Len(v) : At(v, i) \in Digits \cup {"."} \/ (i = 1 /\ At(v, i) \in {"-", "+"})
          /\ \E i \in 1..Len(v) : At(v, i) \in Digits
          /\ Cardinality({i \in 1..Len(v) : At(v, i) = "."}) <= 1 :
          v \in {Strip(s)}})

\* the rows the transactions table can hold in a run
MaxRows == 1

\* update_record(record_id, data) on the table tbl: what it returns and the
\* table it leaves. A total_value is kept as its numeral, 0.0 as "0.0";
\* bank_name, company_name and currency are copied like ac_no and left out.
update_record(record_id, d, tbl) ==
    IF record_id = 0
    THEN [ret |-> <<FALSE, "Record ID is required.">>, table |-> tbl]
    ELSE \* total_value_str = str(data.get("total_value", "0")).replace(",", "")
         Only({IF total_value_str # "" /\ ~IsDecimal(total_value_str)
               THEN [ret |-> <<FALSE, "Total Value must be a valid number.">>, table |-> tbl]
               ELSE IF transaction \notin {"DEBIT", "CREDIT"}
               THEN [ret |-> <<FALSE, "Transaction must be DEBIT or CREDIT.">>, table |-> tbl]
               ELSE IF record_id \in DOMAIN tbl
               THEN [ret |-> <<TRUE, "updated successfully.">>,
                     table |-> [tbl EXCEPT ![record_id] =
                                  [ac_no |-> d.ac_no,
                                   doc_date |-> normalize_date(d.doc_date),
                                   ref_no |-> d.ref_no,
                                   total_value |-> IF total_value_str = "" THEN "0.0"
                                                   ELSE total_value_str,
                                   transaction_details |-> transaction]]]
               ELSE [ret |-> <<FALSE, "not found.">>, table |-> tbl] :
               total_value_str \in {RemoveChars(d.total_value, {","})},
               transaction \in {ToUpper(d.transaction_details)}})

InitDb ==
    /\ pc = "db"
    /\ caller = "direct"
    /\ page_i = 0
    /\ text = ""
    /\ parser = None
    /\ page_map = <<>>
    /\ chunks = <<>>
    /\ ci = 0
    /\ current_pos = 0
    /\ header_state = NoHeader
    /\ data = NoData
    /\ results = <<>>
    /\ master = None
    /\ earlier = <<>>
    /\ table = <<>>
    /\ outcome = [call |-> None, args |-> <<>>, ret |-> <<>>]

\* the account numbers the lookups are called with
AcInputs ==
    { None, "", " - ", "9943000613001", " 9943-000613-001 ", "000613001",
      "'0613-001", "456" }

\* the directories the lookups read: unreadable, empty, and with two rows
\* that both match the account 9943-000613-001
Directories ==
    { MissingMaster,
      Master(<<>>),
      Master(<<Row("000613-001", "Krungthai Bank", "CP Foods", "THB"),
               Row("'9943-000613-001", "KTB", "CP Trading", "USD")>>) }

\* save_records(df) for a frame of one row, as the manual entry form and the
\* OCR results give it: the row is appended with str() of its fields, the
\* date normalised, the total parsed (0.0 when it does not parse)
SaveRecords ==
    /\ pc = "db"
    /\ Len(table) < MaxRows
    /\ \E tr \in {"DEBIT", "CREDIT", "BF", None},
          tv \in {"1,000.00", None},
          dd \in {"01-Jan-2024"} :
          \E val_str \in {RemoveChars(tv, {","})} :
             /\ table' = Append(table,
                           [ac_no |-> "9943000613001",
                            doc_date |-> normalize_date(dd),
                            ref_no |-> "OR12/2024",
                            total_value |-> IF val_str # "" /\ val_str # "nan"
                                               /\ IsDecimal(val_str)
                                            THEN val_str ELSE "0.0",
                            transaction_details |-> tr])
             /\ outcome' = [call |-> "save_records",
                            args |-> <<tr, tv, dd>>,
                            ret |-> <<1, "Successfully saved 1 records to database.">>]
    /\ UNCHANGED <<pc, caller, page_i, text, parser, page_map, chunks, ci, current_pos,
                   header_state, data, results, master, earlier>>

\* the edit form's call db.update_record(record_id, update_data)
UpdateRecord ==
    /\ pc = "db"
    /\ \E record_id \in 0..(MaxRows + 1),
          tr \in {"DEBIT", "credit", "BF", ""},
          tv \in {"1,000.00", "abc"} :
          \E d \in {[ac_no |-> "9943000613001", doc_date |-> "2024-01-02",
                     ref_no |-> "IC 25/0662", total_value |-> tv,
                     transaction_details |-> tr]} :
          \E r \in {update_record(record_id, d, table)} :
             /\ table' = r.table
             /\ outcome' = [call |-> "update_record", args |-> <<record_id, d>>, ret |-> r.ret]
    /\ UNCHANGED <<pc, caller, page_i, text, parser, page_map, chunks, ci, current_pos,
                   header_state, data, results, master, earlier>>

\* db.lookup_master_info(ac_no)
LookupMasterInfo ==
    /\ pc = "db"
    /\ \E ac_no \in AcInputs, ac_master \in Directories :
          outcome' = [call |-> "lookup_master_info", args |-> <<ac_no, ac_master>>,
                      ret |-> lookup_master_info(ac_no, ac_master)]
    /\ UNCHANGED <<pc, caller, page_i, text, parser, page_map, chunks, ci, current_pos,
                   header_state, data, results, master, earlier, table>>

\* ocr_process.lookup_master(ac_no, master_path) on the same directories
LookupMaster ==
    /\ pc = "db"
    /\ \E ac_no \in AcInputs, m \in Directories :
          outcome' = [call |-> "lookup_master", args |-> <<ac_no, m>>,
                      ret |-> lookup_master(ac_no, m)]
    /\ UNCHANGED <<pc, caller, page_i, text, parser, page_map, chunks, ci, current_pos,
                   header_state, data, results, master, earlier, table>>

NextDb ==
    \/ SaveRecords
    \/ UpdateRecord
    \/ LookupMasterInfo
    \/ LookupMaster

SpecDb == InitDb /\ [][NextDb]_vars

\* ------------------------------------------------------------------------
\* Properties
\* ------------------------------------------------------------------------

\* U, an upper-cased text, has DEBIT or CREDIT at position i, followed by
\* optional whitespace and ADVICE
AdviceMarkerAt(U, i) ==
    \E w \in {"DEBIT", "CREDIT"} :
        /\ i + Len(w) - 1 <= Len(U)
        /\ SubSeq(U, i, i + Len(w) - 1) = w
        /\ \E j \in (i + Len(w))..(Len(U) - 5) :
              /\ SubSeq(U, j, j + 5) = "ADVICE"
              /\ \A q \in (i + Len(w))..(j - 1) : At(U, q) \in Space

\* the positions of s at which a debit-advice or credit-advice marker starts
AdviceMarkerStarts(s) ==
    Only({{i \in 1..Len(U) : AdviceMarkerAt(U, i)} : U \in {ToUpper(s)}})

\* a step of the chunk loop that appends a record
Appends == pc = "loop" /\ Len(results') = Len(results) + 1

TotalValue == data["Total Value"]

\* C1: a record is appended only by the chunk loop, and only for a chunk
\* whose text has a debit-advice or credit-advice marker or whose record has
\* a transaction type; the result list grows in no other way.
C1_PromotionNeedsMarker ==
    [][Len(results') > Len(results) =>
          /\ Appends
          /\ \/ AdviceMarkerStarts(chunks[ci]) # {}
             \/ results'[Len(results')]["Transaction"] # None]_vars

\* C1, its case: a chunk without marker and without transaction type was
\* processed after a record had been emitted, and left the list as it was
C1_Witness ==
    /\ pc = "loop" /\ ci > 1 /\ chunks[ci - 1] # ""
    /\ AdviceMarkerStarts(chunks[ci - 1]) = {}
    /\ data["Transaction"] = None
    /\ Len(results) = 1
    /\ results[1]["Transaction"] # None

\* what the parser extracts from each chunk up to the one the loop is at
ExtractedSoFar ==
    [j \in 1..ci |-> IF chunks[j] = "" THEN NoData ELSE extract_chunk(parser, chunks[j])]

RECURSIVE LastExtracted(_, _, _)
\* the most recent non-empty value of field k among exts[1..j], else None
LastExtracted(exts, k, j) ==
    IF j = 0 THEN None
    ELSE IF Truthy(exts[j][k]) THEN exts[j][k]
    ELSE LastExtracted(exts, k, j - 1)

\* C2: at the moment a record is appended, each of Document Date, Reference
\* No and A/C No is the value extracted from its own chunk when that is
\* non-empty, else the most recent non-empty value extracted from an earlier
\* chunk, else null; and inside the chunk loop a header_state field that is
\* set is never unset again.
C2_HeaderCarried ==
    [][/\ Appends =>
             \A exts \in {ExtractedSoFar} : \A k \in HeaderKeys :
                 results'[Len(results')][k] = LastExtracted(exts, k, ci)
       /\ (pc = "loop" /\ pc' = "loop") =>
             \A k \in HeaderKeys : header_state[k] # None => header_state'[k] # None]_vars

\* C2, its case: an advice on page 2 has the account number that only the
\* header on page 1 gives
C2_Witness ==
    /\ pc = "returned"
    /\ \E i \in DOMAIN results :
          /\ results[i]["Page"] = 2
          /\ results[i]["A/C No"] = "000613-001"
          /\ \E q \in 1..(Len(text) - 13) :
                /\ SubSeq(text, q, q + 13) = "--- Page 2 ---"
                /\ ~In("A/C", SubSeq(text, q, Len(text)))

\* C3: the returned list has exactly one record per occurrence of a
\* debit-advice or credit-advice marker in the text.
C3_OneRecordPerMarker ==
    pc = "returned" => Len(results) = Cardinality(AdviceMarkerStarts(text))

RECURSIVE TrueStart(_)
\* the offset in the text at which chunk n starts
TrueStart(n) == IF n <= 1 THEN 0 ELSE TrueStart(n - 1) + Len(chunks[n - 1])

\* the text has the marker of page n at offset q
PageMarkerAtOffset(t, q, n) ==
    \E mk \in {"--- Page " \o IntStr(n) \o " ---"} :
        q + Len(mk) <= Len(t) /\ SubSeq(t, q + 1, q + Len(mk)) = mk

\* PageIndex lookup: the greatest page number whose marker is at an offset
\* <= off, and 1 when there is none
PageIndexLookup(t, off) ==
    Only({IF ns = {} THEN 1 ELSE CHOOSE n \in ns : \A m \in ns : m <= n :
          ns \in {{n \in 1..MaxPages : \E q \in 0..off : PageMarkerAtOffset(t, q, n)}}})

\* C4: for every chunk the loop reaches, the running offset is the offset at
\* which the chunk really starts in the text, and every appended record has
\* the page number the PageIndex lookup gives for that offset.
C4_PageAtTrueOffset ==
    /\ [](pc = "loop" /\ ci <= Len(chunks) =>
             /\ current_pos = TrueStart(ci)
             /\ current_pos + Len(chunks[ci]) <= Len(text)
             /\ SubSeq(text, current_pos + 1, current_pos + Len(chunks[ci])) = chunks[ci])
    /\ [][Appends => results'[Len(results')]["Page"]
                        = PageIndexLookup(text, TrueStart(ci))]_vars

\* C4, its case: after an empty first chunk, a record of page 1 and a record
\* of an advice that starts behind the marker of page 2
C4_Witness ==
    /\ pc = "returned"
    /\ chunks[1] = ""
    /\ Len(results) >= 2
    /\ results[1]["Page"] = 1
    /\ results[Len(results)]["Page"] = 2

\* C5: along the result list page numbers never decrease.
C5_PagesNonDecreasing ==
    \A i \in 1..(Len(results) - 1) : results[i]["Page"] <= results[i + 1]["Page"]

\* C5, its case: three or more records that span both pages
C5_Witness ==
    /\ pc = "returned"
    /\ Len(results) >= 3
    /\ \E i \in DOMAIN results : results[i]["Page"] = 1
    /\ \E i \in DOMAIN results : results[i]["Page"] = 2

\* C6: whatever the parser and the chunk, the record extract_chunk returns
\* has a Total Value only if it has a Transaction.
C6_AmountOnlyWithTransaction ==
    pc = "chunk_done" => (TotalValue # None => data["Transaction"] # None)

\* C6, its case: a chunk with an amount behind an amount keyword and no
\* advice marker; nothing is reported
C6_Witness ==
    /\ pc = "chunk_done"
    /\ In("Total Amount : 48,022.84", text)
    /\ data["Transaction"] = None
    /\ TotalValue = None

\* digits, then '.', then exactly two digits
IsTwoDecimalNumber(v) ==
    /\ Len(v) >= 4
    /\ At(v, Len(v) - 2) = "."
    /\ \A i \in (1..Len(v)) \ {Len(v) - 2} : At(v, i) \in Digits

\* C7: a Total Value that is set is a string of digits, one '.', and two
\* fractional digits; a chunk whose only amount is 48,022.84 or 48 022.84
\* has the Total Value 48022.84.
C7_TotalValueTwoDecimals ==
    pc = "chunk_done" =>
        /\ TotalValue # None => IsTwoDecimalNumber(TotalValue)
        /\ \A h \in {"DEBIT ADVICE", "CREDIT ADVICE"} :
           \A a \in {"\nTotal Amount : 48,022.84", "\nAmount Credited 48 022.84"} :
               text = h \o a => TotalValue = "48022.84"

\* C7, its case: an amount written with a space as thousands separator was
\* stored
C7_Witness ==
    /\ pc = "chunk_done"
    /\ In("48 022.84", text)
    /\ TotalValue = "48022.84"

\* the amount keywords in the order of their priority, in upper case
PriorityKeywords ==
    <<"AMOUNT CREDITED", "TOTAL DEBITED", "TOTAL CREDITED", "TOTAL AMOUNT",
      "TOTAL VALUE", "DEBIT AMOUNT", "CREDIT AMOUNT", "AMOUNT">>

\* the positions behind the first occurrence of kw in U (none, or one)
BehindKeyword(U, kw) ==
    {p + Len(kw) : p \in {p \in 1..(Len(U) - Len(kw) + 1) :
                            /\ SubSeq(U, p, p + Len(kw) - 1) = kw
                            /\ \A q \in 1..(p - 1) : SubSeq(U, q, q + Len(kw) - 1) # kw}}

\* the normalised amount tokens of t behind the first occurrence of kw
AmountsBehind(t, kw) ==
    UNION {{RemoveChars(v, Space \cup {","}) : v \in
               {vs[i] : i \in DOMAIN vs}} :
           vs \in {FindAmounts(AmountAny, SubSeq(t, from, Len(t))) :
                     from \in BehindKeyword(ToUpper(t), kw)}}

\* C8: for the Krungthai and the Generic parser and a chunk with a
\* transaction type, when some priority keyword has an amount behind it the
\* Total Value is an amount behind the first such keyword of the priority
\* list; with Total Debited ... USD 87,300.06 it is 87300.06.
C8_KeywordWindowWins ==
    (pc = "chunk_done" /\ parser # "CIMBParser" /\ data["Transaction"] # None) =>
        /\ \A behind \in {[k \in DOMAIN PriorityKeywords |->
                              AmountsBehind(text, PriorityKeywords[k])]} :
           \A hits \in {{k \in DOMAIN behind : behind[k] # {}}} :
               hits # {} => TotalValue \in behind[CHOOSE k \in hits : \A j \in hits : k <= j]
        /\ In("Total Debited : USD 87,300.06", text) => TotalValue = "87300.06"

\* C8, its case: Total Debited with its amount, and an unrelated amount
\* before it in the chunk
C8_Witness ==
    /\ pc = "chunk_done"
    /\ parser = "KrungthaiParser"
    /\ In("FOR USD 87,215.55\nTotal Debited : USD 87,300.06", text)
    /\ TotalValue = "87300.06"

\* C9: the enrichment pass leaves every non-null Bank Name and Company Name
\* of a record as it is.
C9_EnrichKeepsNonNull ==
    [][(pc = "returned" /\ pc' = "done") =>
          \A i \in DOMAIN results : \A k \in {"Bank Name", "Company Name"} :
              results[i][k] # None => results'[i][k] = results[i][k]]_vars

\* an account number without whitespace, apostrophes and hyphens
FullyNormalised(ac) == RemoveChars(ac, Space \cup {"'", "-"})

\* the rows of the directory whose fully normalised account number contains
\* the fully normalised ac, or is contained in it
NormalisedMatches(ac, rows) ==
    {i \in DOMAIN rows : \/ In(FullyNormalised(ac), FullyNormalised(rows[i].ACNO))
                         \/ In(FullyNormalised(rows[i].ACNO), FullyNormalised(ac))}

\* C10: after the enrichment with a directory, every record whose account
\* number matches a directory entry after whitespace, apostrophes and
\* hyphens are removed from both has the bank name of such an entry.
C10_NormalisedLookup ==
    (pc = "done" /\ master.exists) =>
        \A i \in DOMAIN results :
            Truthy(results[i]["A/C No"]) =>
                \A hits \in {NormalisedMatches(results[i]["A/C No"], master.rows)} :
                    hits # {} => results[i]["Bank Name"] \in {master.rows[j].BankName : j \in hits}

\* ------------------------------------------------------------------------
\* C11: one dialect strategy per document
\* ------------------------------------------------------------------------

\* the signature occurs somewhere in t, in any mix of upper and lower case
HasSignature(t, sig) ==
    \E p \in 1..(Len(t) - Len(sig) + 1) : ToUpper(SubSeq(t, p, p + Len(sig) - 1)) = sig

\* the strategy the priority Krungthai > CIMB > Generic gives for the whole text
ExpectedStrategy(t) ==
    IF HasSignature(t, "KRUNGTHAI") THEN "KrungthaiParser"
    ELSE IF HasSignature(t, "CIMB") THEN "CIMBParser" ELSE "GenericParser"

\* the BankName a dialect writes into its records
DialectBank(p) ==
    CASE p = "KrungthaiParser" -> "Krungthai"
      [] p = "CIMBParser" -> "CIMB"
      [] OTHER -> None

\* C11: the strategy is the one the signatures of the whole RawText select
\* (Krungthai before CIMB before Generic, case-insensitively), and every chunk
\* parsed and every record emitted carries that one dialect's BankName, also
\* when chunks of the document bear another bank's signature.
C11_OneStrategyPerDocument ==
    pc \in {"loop", "returned"} =>
        /\ parser = ExpectedStrategy(text)
        /\ data # NoData => data["Bank Name"] = DialectBank(parser)
        /\ \A i \in DOMAIN results : results[i]["Bank Name"] = DialectBank(parser)

\* a document holding a Krungthai advice page and a CIMB advice page has
\* returned two or more records, all of them Krungthai records
C11_Witness ==
    /\ pc = "returned"
    /\ In("CIMB BANK", text)
    /\ In("KRUNGTHAI BANK", text)
    /\ Len(results) >= 2
    /\ \E i \in DOMAIN results : results[i]["A/C No"] = "2200027067340" /\ results[i]["Bank Name"] = "Krungthai"

\* ------------------------------------------------------------------------
\* C12: the generic fallback
\* ------------------------------------------------------------------------

\* C12: on every chunk the Generic strategy returns the Krungthai strategy's
\* fields, with one difference only: BankName is null.
C12_GenericIsKrungthaiSansBank ==
    (pc = "chunk_done" /\ parser = "GenericParser") =>
        \E k \in {KrungthaiExtract(text)} :
            /\ k["Bank Name"] = "Krungthai"
            /\ data["Bank Name"] = None
            /\ DOMAIN data = DOMAIN k \cup {"Page"}
            /\ \A f \in DOMAIN k \ {"Bank Name"} : data[f] = k[f]

\* the Generic strategy has extracted account, date, reference, amount and
\* transaction type of a chunk, and no bank name
C12_Witness ==
    /\ pc = "chunk_done"
    /\ parser = "GenericParser"
    /\ data["A/C No"] = "9943000613001"
    /\ data["Document Date"] = "01-Jan-2024"
    /\ data["Reference No"] = "OR12/2024"
    /\ data["Total Value"] = "1000.00"
    /\ data["Transaction"] = "DEBIT"
    /\ data["Bank Name"] = None

\* ------------------------------------------------------------------------
\* C13: totality of extract_all_entries
\* ------------------------------------------------------------------------

\* C13: a call never raises, and for an empty or a non-string argument it
\* returns the empty list.
C13_NeverRaises ==
    /\ pc # "raised"
    /\ (pc = "returned" /\ text \in {"", None}) => results = <<>>

\* ------------------------------------------------------------------------
\* C14: texts without a transaction-start marker
\* ------------------------------------------------------------------------

RECURSIVE TrueStartOf(_, _)
\* the offset at which piece j of the list chs starts
TrueStartOf(chs, j) == IF j <= 1 THEN 0 ELSE TrueStartOf(chs, j - 1) + Len(chs[j - 1])

TransactionMarkers == {"DEBIT ADVICE", "CREDIT ADVICE", "RECEIPT NO.", "SHIPMENT RECEIPT"}

HasTransactionMarker(t) == \E mk \in TransactionMarkers : HasSignature(t, mk)

\* the offsets at which t has a page marker
PageMarkerOffsets(t) ==
    {q \in 0..Len(t) : \E n \in 1..(MaxPages + 1) : PageMarkerAtOffset(t, q, n)}

\* C14 as stated: a text without a transaction-start marker is one chunk, the
\* whole text, and gives zero or one record, with or without page markers.
C14_OneChunkWithoutMarker ==
    (pc \in {"loop", "returned"} /\ ~HasTransactionMarker(text)) =>
        chunks = <<text>> /\ Len(results) <= 1

\* C14 amended: a text without a transaction-start marker is cut before its
\* page markers and nowhere else, and each piece gives at most one record; so
\* a text that has no page marker either is one chunk, the whole text, and
\* gives zero or one record.
C14_CutAtPageMarkersOnly ==
    (pc \in {"loop", "returned"} /\ ~HasTransactionMarker(text)) =>
        \E offs \in {PageMarkerOffsets(text)} :
            /\ Len(chunks) = Cardinality(offs) + 1
            /\ \A j \in 2..Len(chunks) : TrueStartOf(chunks, j) \in offs
            /\ Len(results) <= Cardinality({j \in DOMAIN chunks : chunks[j] # ""})
            /\ offs = {} => chunks = <<text>> /\ Len(results) <= 1

\* a text with no marker of either kind has been returned as one chunk with
\* one record (its advice heading is written without the space)
C14_Witness ==
    /\ pc = "returned"
    /\ ~HasTransactionMarker(text)
    /\ PageMarkerOffsets(text) = {}
    /\ chunks = <<text>>
    /\ Len(results) = 1
    /\ results[1]["Total Value"] = "5.00"

\* ------------------------------------------------------------------------
\* C15: one document does not leak into the next
\* ------------------------------------------------------------------------

\* one round of the chunk loop on the loop's locals st
StepChunk(p, pmap, chunk, st) ==
    IF chunk = "" THEN st
    ELSE Only({[pos |-> NextPos(st.pos, chunk),
                hs |-> MergedHeader(extracted, st.hs),
                res |-> NextResults(st.res, chunk, MergedData(extracted, st.hs))] :
               extracted \in {("Page" :> DeterminePage(pmap, st.pos)) @@ extract_chunk(p, chunk)}})

RECURSIVE FoldChunks(_, _, _, _)
\* the loop's locals after the first j chunks, from freshly built locals
FoldChunks(p, pmap, chs, j) ==
    IF j = 0 THEN [pos |-> 0, hs |-> NoHeader, res |-> <<>>]
    ELSE Only({StepChunk(p, pmap, chs[j], st) : st \in {FoldChunks(p, pmap, chs, j - 1)}})

\* what a call on t returns when nothing was processed before it
ResultsOf(t) ==
    Only({FoldChunks(get_bank_parser(t), BuildPageMap(t), chs, Len(chs)).res :
          chs \in {SplitChunks(t)}})

ChangedFields(a, b) == {k \in DOMAIN a : a[k] # b[k]}

\* C20: a round of the chunk loop either appends one record and leaves every
\* earlier record as it was, or keeps the length of the list and changes at
\* most the last record, and of that only header fields that were empty, which
\* receive the value extracted from the chunk of this round.
C20_BackFillFrame ==
    [][pc = "loop" =>
        \E n \in {Len(results)} :
            /\ Len(results') \in {n, n + 1}
            /\ \A i \in 1..(n - 1) : results'[i] = results[i]
            /\ (Len(results') = n + 1 /\ n >= 1) => results'[n] = results[n]
            /\ (Len(results') = n /\ n >= 1) =>
                  /\ DOMAIN results'[n] = DOMAIN results[n]
                  /\ \A k \in ChangedFields(results[n], results'[n]) :
                        /\ k \in HeaderKeys
                        /\ ~Truthy(results[n][k])
                        /\ ~Promoted(chunks[ci], data')
                        /\ results'[n][k] = extract_chunk(parser, chunks[ci])[k]]_vars

\* the advice of page 1 has no reference number; the reference found on
\* page 2, which has no advice, was written into page 1's record
C20_Witness ==
    /\ pc = "returned"
    /\ page_i = 2
    /\ Len(results) = 1
    /\ results[1]["Page"] = 1
    /\ results[1]["Transaction"] = "CREDIT"
    /\ Truthy(results[1]["Reference No"])
    /\ ~In("Ref", chunks[2])
    /\ In("Our Ref", text)

\* ------------------------------------------------------------------------
\* C16 to C19: normalize_date
\* ------------------------------------------------------------------------

\* the Document Date normalize_date returned
Normalized == data["Document Date"]

\* the Document Date after the second normalisation
Reloaded == results[1]["Document Date"]

\* the formats C16 lists
ListedFormats ==
    {"DD-Mon-YYYY", "DD-MON-YYYY", "DD/MM/YYYY", "D/M/YYYY", "Month DD, YYYY",
     "Mon DD, YYYY", "YYYY-MM-DD"}

\* s is four digits, '-', two digits, '-', two digits
IsIsoDate(s) ==
    /\ Len(s) = 10
    /\ \A i \in {1, 2, 3, 4, 6, 7, 9, 10} : At(s, i) \in Digits
    /\ At(s, 5) = "-" /\ At(s, 8) = "-"

\* C16: a date written in one of the listed formats is mapped to the
\* zero-padded YYYY-MM-DD string of the same day, month and year, and None
\* and the empty string are mapped to None.
C16_ListedFormatsToIso ==
    pc = "date_done" =>
        /\ \A r \in DatedInputs : (r.fmt \in ListedFormats /\ r.s = text) => Normalized = r.iso
        /\ text \in {None, ""} => Normalized = None

\* the day-first string 1/5/2025 has been normalised to the first of May
C16_Witness ==
    /\ pc = "date_done"
    /\ text = "1/5/2025"
    /\ Normalized = "2025-05-01"

\* C17: a DD-MM-YYYY string with numeric month and hyphens is mapped to the
\* YYYY-MM-DD string of that date, the day being read first.
C17_HyphenNumericToIso ==
    pc = "date_done" =>
        \A r \in DatedInputs : (r.fmt = "DD-MM-YYYY" /\ r.s = text) => Normalized = r.iso

\* C18: normalising the normalised value again gives the same value, and a
\* value that already is an ISO date is returned as it is; so the
\* normalisation after loading changes nothing that was normalised before.
C18_Idempotent ==
    /\ pc = "date_loaded" => Reloaded = Normalized
    /\ (pc = "date_done" /\ IsIsoDate(text)) => Normalized = text

\* 31-Dec-1999 has been normalised twice, both times to 1999-12-31
C18_Witness ==
    /\ pc = "date_loaded"
    /\ text = "31-Dec-1999"
    /\ Normalized = "1999-12-31"
    /\ Reloaded = "1999-12-31"

\* C19: when no pattern matches, the string comes back as it was given, and
\* an ISO date that comes back is the date the given string denotes.
C19_NothingInvented ==
    (pc = "date_done" /\ text \notin {None, ""}) =>
        /\ text \in UndatedInputs => Normalized = text
        /\ IsIsoDate(Normalized) => \E r \in DatedInputs : r.s = text /\ r.iso = Normalized

\* ------------------------------------------------------------------------
\* C21: the split consumes nothing
\* ------------------------------------------------------------------------

RECURSIVE Concat(_)
\* the pieces of a list of strings, joined in order
Concat(chs) == IF chs = <<>> THEN "" ELSE Head(chs) \o Concat(Tail(chs))

\* every marker of the split, in upper case
AllMarkers ==
    TransactionMarkers \cup {"--- PAGE " \o IntStr(n) \o " ---" : n \in 1..(MaxPages + 1)}

\* s begins with pre, in any mix of upper and lower case
BeginsWith(s, pre) == Len(pre) <= Len(s) /\ ToUpper(SubSeq(s, 1, Len(pre))) = pre

\* the markers that start at offset off of the upper-cased text U
MarkersAtOffset(U, off) ==
    {mk \in AllMarkers : off + Len(mk) <= Len(U) /\ SubSeq(U, off + 1, off + Len(mk)) = mk}

\* the offsets of t at which a marker starts
MarkerOffsets(t) ==
    Only({{off \in 0..(Len(U) - 1) : MarkersAtOffset(U, off) # {}} : U \in {ToUpper(t)}})

\* the offsets at which the chunks after the first start
ChunkStarts == {TrueStartOf(chunks, j) : j \in 2..Len(chunks)}

\* C21 as stated: the chunks concatenate to the text, every chunk but the
\* first begins with the marker that started it, and the text before the
\* first marker is a chunk of its own.
C21_ChunksBeginWithMarker ==
    pc \in {"loop", "returned"} =>
        /\ Concat(chunks) = text
        /\ \A j \in 2..Len(chunks) : \E mk \in AllMarkers : BeginsWith(chunks[j], mk)
        /\ ChunkStarts = MarkerOffsets(text)

\* C21 amended: the chunks concatenate to the text; every chunk but the first
\* starts where a marker starts in the text and begins with that marker, cut
\* short only where the next marker starts inside it; a chunk started by a
\* debit or credit advice marker holds that marker in full; the chunks after
\* the first start at the marker starts of the text and nowhere else, so the
\* text before the first marker is a chunk of its own.
C21_ChunksStartAtMarkers ==
    pc \in {"loop", "returned"} =>
        /\ Concat(chunks) = text
        /\ \A j \in 2..Len(chunks) :
              \E mks \in {MarkersAtOffset(ToUpper(text), TrueStartOf(chunks, j))} :
                 /\ mks # {}
                 /\ \A mk \in mks :
                       \/ BeginsWith(chunks[j], mk)
                       \/ /\ j < Len(chunks)
                          /\ ToUpper(chunks[j]) = SubSeq(mk, 1, Len(chunks[j]))
                 /\ \A mk \in mks \cap {"DEBIT ADVICE", "CREDIT ADVICE"} : BeginsWith(chunks[j], mk)
        /\ ChunkStarts = MarkerOffsets(text)

\* a header line, then a debit advice: two chunks, the first without a
\* marker, the second beginning with its advice marker
C21_Witness ==
    /\ pc = "returned"
    /\ caller = "direct"
    /\ Len(chunks) = 2
    /\ chunks[1] = "KRUNGTHAI BANK\n"
    /\ BeginsWith(chunks[2], "DEBIT ADVICE")
    /\ Concat(chunks) = text

\* ------------------------------------------------------------------------
\* C22: the transaction type of a record
\* ------------------------------------------------------------------------

\* U has the word w, then whitespace or nothing, then ADVICE
HasAdviceOf(U, w) ==
    \E i \in 1..Len(U) :
        /\ i + Len(w) - 1 <= Len(U)
        /\ SubSeq(U, i, i + Len(w) - 1) = w
        /\ \E j \in (i + Len(w))..(Len(U) - 5) :
              /\ SubSeq(U, j, j + 5) = "ADVICE"
              /\ \A q \in (i + Len(w))..(j - 1) : At(U, q) \in Space

\* the type the advice keywords of chunk c stand for
KeywordType(c) ==
    Only({IF HasAdviceOf(U, "DEBIT") THEN "DEBIT"
          ELSE IF HasAdviceOf(U, "CREDIT") THEN "CREDIT" ELSE None : U \in {ToUpper(c)}})

\* C22: every record has the Transaction DEBIT or CREDIT, and it is the one
\* the advice keyword of the record's own chunk stands for (DEBIT when a
\* debit advice keyword is there, else CREDIT); no later step changes it.
C22_TransactionFromOwnChunk ==
    [][/\ Appends => /\ results'[Len(results')]["Transaction"] \in {"DEBIT", "CREDIT"}
                     /\ results'[Len(results')]["Transaction"] = KeywordType(chunks[ci])
       /\ pc \in {"loop", "returned"} =>
             \A i \in DOMAIN results :
                 i <= Len(results') => results'[i]["Transaction"] = results[i]["Transaction"]]_vars

\* a DEBIT record followed by a CREDIT record of the same page
C22_Witness ==
    /\ pc = "returned"
    /\ Len(results) = 2
    /\ results[1]["Transaction"] = "DEBIT"
    /\ results[2]["Transaction"] = "CREDIT"
    /\ results[1]["Total Value"] = "1.00"
    /\ results[2]["Total Value"] = "2.00"


\* ------------------------------------------------------------------------
\* C23: the tie-break inside the window of a keyword
\* ------------------------------------------------------------------------

\* the normalised amount tokens of t behind the first occurrence of kw, in
\* the order of the text; <<>> when kw does not occur
WindowTokens(t, kw) ==
    Only({IF from = {} THEN <<>>
          ELSE Only({[i \in DOMAIN vs |-> RemoveChars(vs[i], Space \cup {","})] :
                     vs \in {FindAmounts(AmountAny, SubSeq(t, Only(from), Len(t)))}}) :
          from \in {BehindKeyword(ToUpper(t), kw)}})

\* the windows of all priority keywords, in the order of the priority list
Windows(t) == [k \in DOMAIN PriorityKeywords |-> WindowTokens(t, PriorityKeywords[k])]

\* the first keyword of the priority list with a token in its window, or 0
WinningKeyword(w) ==
    IF \A k \in DOMAIN w : w[k] = <<>> THEN 0
    ELSE CHOOSE k \in DOMAIN w : w[k] # <<>> /\ \A j \in 1..(k - 1) : w[j] = <<>>

\* the amount extraction ran: a Krungthai or Generic extraction of a chunk
\* with a transaction type that is no shipment receipt without advice
AmountExtractionRan ==
    /\ pc = "chunk_done"
    /\ parser # "CIMBParser"
    /\ data["Transaction"] # None
    /\ ~(In("SHIPMENT RECEIPT", ToUpper(text)) /\ ~In("ADVICE", ToUpper(text)))

\* C23 as stated: the window of 'amount credited' gives its last token, the
\* window of every other keyword, the generic 'Amount' included, its first.
C23_CreditedLastOthersFirst ==
    AmountExtractionRan =>
        \A w \in {Windows(text)} : \A k \in {WinningKeyword(w)} :
            k # 0 => TotalValue = IF PriorityKeywords[k] = "AMOUNT CREDITED"
                                  THEN w[k][Len(w[k])] ELSE w[k][1]

\* C23, amended: the window of the generic 'Amount' gives its last token,
\* the window of every other keyword of the priority list, 'amount
\* credited' included, gives its first token.
C23_AmountLastOthersFirst ==
    AmountExtractionRan =>
        \A w \in {Windows(text)} : \A k \in {WinningKeyword(w)} :
            k # 0 => TotalValue = IF PriorityKeywords[k] = "AMOUNT"
                                  THEN w[k][Len(w[k])] ELSE w[k][1]

\* C23, its case: 'Amount Credited' with two different amounts behind it
\* gave the first one, and in another run the generic 'Amount' would give
\* the last one
C23_Witness ==
    /\ AmountExtractionRan
    /\ text = "CREDIT ADVICE\nAmount Credited 48 022.84\nSwift : USD 30.00"
    /\ Windows(text)[1] = <<"48022.84", "30.00">>
    /\ TotalValue = "48022.84"
    /\ KrungthaiExtract("DEBIT ADVICE\nBill Amount : USD 87,215.55\nSwift : USD 30.00")
           ["Total Value"] = "30.00"


\* ------------------------------------------------------------------------
\* C24: the last resort of the amount extraction
\* ------------------------------------------------------------------------

\* the normalised amount tokens of the whole of t, in the order of the text
ChunkTokens(t) ==
    Only({[i \in DOMAIN vs |-> RemoveChars(vs[i], Space \cup {","})] :
          vs \in {FindAmounts(AmountAny, t)}})

\* C24: when the amount extraction ran and no keyword of the priority list
\* has an amount behind it (it does not occur, or nothing follows it), the
\* Total Value is the last amount token of the whole chunk; the Total Value
\* is null only if the chunk has no amount token at all.
C24_LastResortIsLastToken ==
    AmountExtractionRan =>
        \A all \in {ChunkTokens(text)} :
            /\ WinningKeyword(Windows(text)) = 0 =>
                   TotalValue = IF all = <<>> THEN None ELSE all[Len(all)]
            /\ TotalValue = None <=> all = <<>>

\* C24, its case: 'Total Amount' occurs with nothing behind it, 'Amount'
\* likewise, and the last of the two amounts before them is the Total Value
C24_Witness ==
    /\ AmountExtractionRan
    /\ parser = "KrungthaiParser"
    /\ BehindKeyword(ToUpper(text), "TOTAL AMOUNT") # {}
    /\ WinningKeyword(Windows(text)) = 0
    /\ ChunkTokens(text) = <<"87215.55", "30.00">>
    /\ TotalValue = "30.00"


\* ------------------------------------------------------------------------
\* C25: account numbers shorter than five characters
\* ------------------------------------------------------------------------

\* C25: whichever of the three parsers extracted the chunk, an A/C No that
\* is stored has at least five characters; a shorter candidate is rejected
\* and the A/C No stays null unless another pattern gives a longer one.
C25_ShortAccountNeverStored ==
    pc = "chunk_done" => \/ data["A/C No"] = None
                         \/ Len(data["A/C No"]) >= MinAcLen


\* ------------------------------------------------------------------------
\* C26: a captured reference that runs into another label
\* ------------------------------------------------------------------------

\* the value captured behind the first labelled reference keyword of t, as
\* the pattern captured it, or None when no labelled keyword matches
RefCapture(t) ==
    Only({IF m.found THEN LastGroup(t, KtbRefLabelled, m) ELSE None :
          m \in {Search(KtbRefLabelled, ToUpper(t), 1)}})

\* v contains one of the disqualifying words, in any case
Disqualified(v) == \E x \in {"A/C", "AMOUNT", "DATE"} : In(x, ToUpper(v))

\* the length of the reference code that starts at position p of v, or 0:
\* OR, IC, EC or BC, at most one blank, two digits, '/', four digits
RefCodeLen(v, p) ==
    Only({IF ~(p + 1 <= Len(V) /\ SubSeq(V, p, p + 1) \in {"OR", "IC", "EC", "BC"}) THEN 0
          ELSE Only({IF /\ q + 6 <= Len(V)
                        /\ \A i \in {q, q + 1, q + 3, q + 4, q + 5, q + 6} : At(V, i) \in Digits
                        /\ At(V, q + 2) = "/"
                     THEN q + 7 - p ELSE 0 :
                     q \in {IF p + 2 <= Len(V) /\ At(V, p + 2) \in Space
                            THEN p + 3 ELSE p + 2}}) :
          V \in {ToUpper(v)}})

\* the first reference code inside v, or None
CodeInside(v) ==
    Only({IF ps = {} THEN None
          ELSE Only({SubSeq(v, p, p + RefCodeLen(v, p) - 1) :
                     p \in {CHOOSE p \in ps : \A q \in ps : p <= q}}) :
          ps \in {{p \in 1..Len(v) : RefCodeLen(v, p) > 0}}})

\* a Krungthai or Generic extraction of a chunk with a labelled reference
LabelledRefExtracted ==
    /\ pc = "chunk_done"
    /\ parser # "CIMBParser"
    /\ RefCapture(text) # None

\* C26 as stated: a captured value with A/C, AMOUNT or DATE in it gives the
\* reference code inside it or null, and every other captured value is
\* stored exactly as the pattern captured it.
C26_CapturedStoredAsIs ==
    LabelledRefExtracted =>
        \A v \in {RefCapture(text)} :
            data["Reference No"] = IF Disqualified(v) THEN CodeInside(v) ELSE v

\* C26, amended: a captured value with A/C, AMOUNT or DATE in it gives the
\* reference code inside it or null, never the captured value; every other
\* captured value is stored with its leading and trailing whitespace
\* removed and otherwise as it is.
C26_CapturedStoredStripped ==
    LabelledRefExtracted =>
        \A v \in {RefCapture(text)} :
            /\ data["Reference No"] = IF Disqualified(v) THEN CodeInside(v) ELSE Strip(v)
            /\ Disqualified(v) => data["Reference No"] # v

\* C26, its case: the value behind 'Our Ref' ran into the account label and
\* the reference code inside it was stored
C26_Witness ==
    /\ LabelledRefExtracted
    /\ RefCapture(text) = "OR12/2024 A/C NO "
    /\ data["Reference No"] = "OR12/2024"


\* ------------------------------------------------------------------------
\* C27: the matching of lookup_master_info
\* ------------------------------------------------------------------------

\* the fields lookup_master_info returns for the row r
RowFields(r) == <<r.BankName, r.AccountName, r.Currency>>

\* C27: lookup_master_info returns the fields of a directory entry exactly
\* when, with whitespace, apostrophes and hyphens removed from both account
\* numbers, the input contains the entry's number or the entry's number
\* contains the input; it returns (None, None, None) for a null input, for
\* an input that normalises to the empty string, when no entry matches and
\* when the directory cannot be read.
C27_BidirectionalNormalisedMatch ==
    outcome.call = "lookup_master_info" =>
        \A ac \in {outcome.args[1]}, dir \in {outcome.args[2]} :
            IF ac = None \/ FullyNormalised(ac) = "" \/ ~dir.exists
               \/ NormalisedMatches(ac, dir.rows) = {}
            THEN outcome.ret = NotFound
            ELSE outcome.ret \in {RowFields(dir.rows[i]) : i \in NormalisedMatches(ac, dir.rows)}

\* ------------------------------------------------------------------------
\* C28: the first match in directory order
\* ------------------------------------------------------------------------

\* the indices of the rows the called function takes as matches of ac: both
\* functions test containment in either direction, lookup_master after
\* removing apostrophes from the directory number and blanks from the input,
\* lookup_master_info after removing blanks and hyphens from both and
\* apostrophes from the directory number
OwnMatches(call, ac, rows) ==
    {i \in DOMAIN rows :
        \E x \in {IF call = "lookup_master" THEN Strip(RemoveChars(rows[i].ACNO, {"'"}))
                  ELSE RemoveChars(Strip(rows[i].ACNO), {"'", " ", "-"})},
           c \in {IF call = "lookup_master" THEN RemoveChars(Strip(ac), {" "})
                  ELSE RemoveChars(Strip(ac), {" ", "-"})} :
           In(x, c) \/ In(c, x)}

\* a lookup found an entry
LookupFound ==
    /\ outcome.call \in {"lookup_master", "lookup_master_info"}
    /\ outcome.ret # NotFound

\* C28: when a lookup finds an entry, the three fields it returns are those
\* of the matching row with the smallest index, whichever else matches.
C28_FirstMatchInOrder ==
    LookupFound =>
        \A hits \in {OwnMatches(outcome.call, outcome.args[1], outcome.args[2].rows)} :
            /\ hits # {}
            /\ outcome.ret = RowFields(outcome.args[2].rows[CHOOSE i \in hits :
                                                               \A j \in hits : i <= j])

\* C28, its case: both rows of the directory match 9943000613001, the second
\* one exactly, and lookup_master_info returned the fields of the first
C28_Witness ==
    /\ LookupFound
    /\ outcome.call = "lookup_master_info"
    /\ outcome.args[1] = "9943000613001"
    /\ OwnMatches(outcome.call, outcome.args[1], outcome.args[2].rows) = {1, 2}
    /\ outcome.ret = <<"Krungthai Bank", "CP Foods", "THB">>

\* ------------------------------------------------------------------------
\* C30: updating a stored record without changing its type
\* ------------------------------------------------------------------------

\* C30: an update of an existing record with a numeric total and the
\* transaction type the record has, one of DEBIT, CREDIT and BF, succeeds.
C30_UpdateKeepsEveryType ==
    (/\ outcome.call = "update_record"
     /\ outcome.args[1] \in DOMAIN table
     /\ IsDecimal(RemoveChars(outcome.args[2].total_value, {","}))
     /\ outcome.args[2].transaction_details \in {"DEBIT", "CREDIT", "BF"}
     /\ outcome.args[2].transaction_details = table[outcome.args[1]].transaction_details)
        => outcome.ret[1] = TRUE


\* ------------------------------------------------------------------------
\* C29: page boundaries on both acquisition paths of ocr_typhoon
\* ------------------------------------------------------------------------

\* the offsets at which the block of page n starts in t: the text
\* '--- Page n ' of either form of the marker
BlockStarts(t, n) ==
    Only({{q \in 0..(Len(t) - Len(mk)) : SubSeq(t, q + 1, q + Len(mk)) = mk} :
          mk \in {"--- Page " \o IntStr(n) \o " "}})

\* the page whose block holds the offset off: the last page whose block
\* starts at or before it
PageOfOffset(t, off) ==
    Only({IF ns = {} THEN 1 ELSE CHOOSE n \in ns : \A m \in ns : m <= n :
          ns \in {{n \in 1..page_i : \E q \in BlockStarts(t, n) : q <= off}}})

\* C29: the text ocr_typhoon returned has exactly one block per page, in
\* page order; extract_all_entries has an entry in its page index for every
\* page, at the offset of the page's block, whichever recognizer produced
\* the block; and every record gets the number of the page whose block its
\* chunk starts in.
C29_PageKeptOnEitherPath ==
    /\ [](pc \in {"loop", "returned"} /\ page_i > 0 =>
             /\ \A n \in 1..page_i : Cardinality(BlockStarts(text, n)) = 1
             /\ \A n \in 1..(page_i - 1) :
                    \A q \in BlockStarts(text, n), r \in BlockStarts(text, n + 1) : q < r
             /\ Len(page_map) = page_i
             /\ \A n \in 1..page_i : page_map[n][2] = n /\ page_map[n][1] \in BlockStarts(text, n))
    /\ [][Appends => results'[Len(results')]["Page"] = PageOfOffset(text, TrueStart(ci))]_vars

====
